---- MODULE Spec2Model ----
(***************************************************************************)
(* A model of the BenchmarkWatcher front end: the settings store           *)
(* (BW.Settings), the components that read and write browser storage, and  *)
(* the range-change fetch of the two list views (BW.GridView and           *)
(* BW.CompactTable).                                                       *)
(***************************************************************************)
EXTENDS Integers, Sequences, FiniteSets, TLC

VARIABLES
    lsMode,         \* how window.localStorage behaves in this session
    localStorage,   \* the browser's storage: key -> raw string (or no item)
    memoryStore,    \* BW.Settings' _memoryStore: key -> raw string (or no item)
    lastOp,         \* the handler that ran last, with what it returned and emitted
    dataTheme,      \* <html data-theme>
    darkClass,      \* <html class="dark">
    dataMarket,     \* <html data-market>
    gridControls,   \* the controls of the grid settings panel
    chartSettings,  \* BW.Commodity.chartSettings
    view,           \* the list view of this page: "grid" or "table"
    reqs,           \* the range-change fetches issued so far, oldest first
    currentRequest, \* <view>.currentRequest: index into reqs, 0 for null
    shown,          \* what the view's container holds
    loadingVisible, \* the loading indicator is not hidden
    interactive,    \* the container is at opacity 1 with pointer events
    urlRange,       \* the range parameter of window.location
    cards,          \* how the cards of the grid container are presented
    chart,          \* the detail page: BW.Commodity's data, range, modes and its chart
    modal,          \* the settings modal and the document around it
    buttons,        \* the button groups of the page and their markings
    table,          \* the compact table under sortTable: its rows and the sort state
    sparklines,     \* the sparkline charts of the compact table and their registry
    boot            \* the page load: what the browser brings and how far the scripts are

vars == <<lsMode, localStorage, memoryStore, lastOp, dataTheme, darkClass,
          dataMarket, gridControls, chartSettings, view, reqs, currentRequest,
          shown, loadingVisible, interactive, urlRange, cards, chart, modal,
          buttons, table, sparklines, boot>>

storeVars == <<lsMode, localStorage, memoryStore>>
domVars == <<dataTheme, darkClass, dataMarket, gridControls, chartSettings, cards>>
restVars == <<buttons, table, sparklines, boot>>
otherVars == <<chart, modal, restVars>>
viewVars == <<view, reqs, currentRequest, shown, loadingVisible, interactive, urlRange>>

-----------------------------------------------------------------------------
(* JavaScript values, tagged by type so that any two can be compared.      *)

Null == [t |-> "null", v |-> "null"]
Undefined == [t |-> "undefined", v |-> "undefined"]
Str(s) == [t |-> "str", v |-> s]
Bool(b) == [t |-> "bool", v |-> b]
Num(n) == [t |-> "num", v |-> n]
Obj(f) == [t |-> "obj", v |-> f]
Arr(q) == [t |-> "arr", v |-> q]
\* An object JSON.stringify throws on (a circular reference).
Circular == [t |-> "circular", v |-> "circular"]

NoProps == [k \in {} |-> Null]
EmptyObj == Obj(NoProps)

\* !v
Truthy(v) ==
    CASE v.t = "null" -> FALSE
      [] v.t = "undefined" -> FALSE
      [] v.t = "bool" -> v.v
      [] v.t = "str" -> v.v # ""
      [] v.t = "num" -> v.v # 0
      [] OTHER -> TRUE

\* The property names of the arrays of the model: "0", "1", ...
IndexKey(i) == CASE i = 1 -> "0" [] i = 2 -> "1" [] i = 3 -> "2" [] i = 4 -> "3"

\* The own enumerable properties of a value as a map (what {...v} copies and
\* Object.keys(v) lists). Strings (which spread into characters) are not in the
\* model's inputs at these places.
Props(v) ==
    CASE v.t = "obj" -> v.v
      [] v.t = "arr" -> [k \in {IndexKey(i) : i \in 1..Len(v.v)} |->
                           v.v[CHOOSE i \in 1..Len(v.v) : IndexKey(i) = k]]
      [] v.t \in {"null", "undefined", "bool", "num", "circular"} -> NoProps

ObjectKeys(v) == DOMAIN Props(v)

\* v[k], undefined when v has no such property
Get(v, k) == IF k \in ObjectKeys(v) THEN Props(v)[k] ELSE Undefined

\* {...f, ...g} on property maps
Spread(f, g) ==
    [k \in (DOMAIN f) \cup (DOMAIN g) |-> IF k \in DOMAIN g THEN g[k] ELSE f[k]]

isPlainObject(v) == v.t \in {"obj", "circular"}

RECURSIVE deepMerge(_, _)
deepMerge(target, source) ==
    IF ~Truthy(source) THEN target
    ELSE LET out == Props(target)
             src == Props(source)
         IN Obj([key \in (DOMAIN out) \cup (DOMAIN src) |->
                   IF key \notin DOMAIN src THEN out[key]
                   ELSE IF /\ isPlainObject(src[key])
                           /\ key \in DOMAIN out
                           /\ isPlainObject(out[key])
                        THEN deepMerge(out[key], src[key])
                        ELSE src[key]])

-----------------------------------------------------------------------------
(* Raw strings as storage holds them. A string is either the JSON text of  *)
(* a value or a text JSON.parse rejects (a theme name, a damaged entry).   *)

NoItem == [k |-> "none", s |-> "", j |-> Null]
Text(s) == [k |-> "text", s |-> s, j |-> Null]
JsonText(v) == [k |-> "json", s |-> "", j |-> v]

\* JSON.stringify: a record of whether it threw and the text
JSONstringify(v) ==
    IF v.t = "circular" THEN [threw |-> TRUE, raw |-> NoItem]
    ELSE [threw |-> FALSE, raw |-> JsonText(v)]

\* JSON.parse of a string: a record of whether it threw and the value
JSONparse(raw) ==
    IF raw.k = "json" THEN [threw |-> FALSE, val |-> raw.j]
    ELSE [threw |-> TRUE, val |-> Undefined]

safeParse(raw) ==
    IF raw.k = "none" THEN Null
    ELSE IF JSONparse(raw).threw THEN Null ELSE JSONparse(raw).val

safeStringify(obj) ==
    IF JSONstringify(obj).threw THEN NoItem ELSE JSONstringify(obj).raw

KEY_TABLE == "table-settings"
KEY_GRID == "grid-settings"
KEY_THEME == "theme"
KEY_MARKET_THEME == "market-theme"
KEY_VIEW_MODE == "view-mode"
KEY_CHART == "chart-settings"

StorageKeys == {KEY_TABLE, KEY_GRID, KEY_THEME, KEY_MARKET_THEME, KEY_VIEW_MODE, KEY_CHART}

EmptyStorage == [k \in StorageKeys |-> NoItem]

\* The ways window.localStorage fails: not at all, absent, every call throwing,
\* or setItem alone throwing (the quota is exceeded).
LsModes == {"ok", "missing", "allThrow", "setThrows"}

getItemThrows == lsMode \in {"missing", "allThrow"}
setItemThrows == lsMode \in {"missing", "allThrow", "setThrows"}
removeItemThrows == lsMode \in {"missing", "allThrow"}

\* The two stores as one value, threaded through a handler's calls.
Store == [ls |-> localStorage, mem |-> memoryStore]

lsGetItem(st, key) ==
    IF getItemThrows THEN st.mem[key] ELSE st.ls[key]

lsSetItem(st, key, value) ==
    IF setItemThrows THEN [st EXCEPT !.mem[key] = value]
    ELSE [st EXCEPT !.ls[key] = value]

lsRemoveItem(st, key) ==
    IF removeItemThrows THEN [st EXCEPT !.mem[key] = NoItem]
    ELSE [st EXCEPT !.ls[key] = NoItem]

\* One 'bw.settings.changed' notification. dispatchEvent runs the listeners at
\* once, so `at` is the storage a listener finds.
emitChange(st, key, value) ==
    [key |-> key, value |-> value, at |-> st]

-----------------------------------------------------------------------------
(* BW.Settings. A handler's outcome is a record: the stores after it, the  *)
(* notifications it dispatched, what it returned, whether it threw.        *)

Outcome(st, ev, ret) == [st |-> st, ev |-> ev, ret |-> ret, threw |-> FALSE]
Thrown(st, ev) == [st |-> st, ev |-> ev, ret |-> Undefined, threw |-> TRUE]

TABLE_DEFAULTS ==
    Obj([dataRange |-> Str("ALL"),
         panelOpen |-> Bool(FALSE),
         columns |-> Obj([commodity |-> Bool(TRUE), trend |-> Bool(TRUE),
                          price |-> Bool(TRUE), chg |-> Bool(TRUE),
                          pct |-> Bool(TRUE), updated |-> Bool(TRUE)]),
         commodity |-> Obj([display |-> Str("full"), icon |-> Str("initials")]),
         trend |-> Obj([type |-> Str("area"), points |-> Str("30"),
                        showMA |-> Bool(FALSE), showHighLow |-> Bool(FALSE)]),
         price |-> Obj([format |-> Str("default"), currency |-> Str("below"),
                        precision |-> Str("2")]),
         chg |-> Obj([format |-> Str("arrow"), color |-> Str("colored")]),
         pct |-> Obj([style |-> Str("badge"), decimals |-> Str("2")]),
         updated |-> Obj([format |-> Str("iso"), time |-> Str("no")])])

GRID_FALLBACK == Obj([dataRange |-> Str("ALL")])

_getRaw(st, key) == lsGetItem(st, key)

_setRaw(st, key, str) == lsSetItem(st, key, str)

_removeRaw(st, key) == lsRemoveItem(st, key)

_getParsed(st, key) == safeParse(_getRaw(st, key))

_saveObject_EmitFirst(st, key, obj) ==
    LET raw == safeStringify(obj)
    IN IF raw = NoItem THEN Outcome(st, <<>>, Bool(FALSE))
       ELSE Outcome(_setRaw(st, key, raw), <<emitChange(st, key, obj)>>, Bool(TRUE))

_saveObject(st, key, obj) ==
    LET raw == safeStringify(obj)
    IN IF raw = NoItem THEN Outcome(st, <<>>, Bool(FALSE))
       ELSE LET st2 == _setRaw(st, key, raw)
            IN Outcome(st2, <<emitChange(st2, key, obj)>>, Bool(TRUE))

getTableSettings(st) ==
    LET parsed == _getParsed(st, KEY_TABLE)
    IN IF ~Truthy(parsed) THEN TABLE_DEFAULTS
       ELSE deepMerge(TABLE_DEFAULTS, parsed)

saveTableSettings(st, settings) ==
    IF ~isPlainObject(settings) THEN Outcome(st, <<>>, Bool(FALSE))
    ELSE _saveObject(st, KEY_TABLE, settings)

getGridSettings(st) ==
    LET parsed == _getParsed(st, KEY_GRID)
    IN IF ~Truthy(parsed) THEN GRID_FALLBACK ELSE parsed

saveGridSettings(st, settings) ==
    IF ~isPlainObject(settings) THEN Outcome(st, <<>>, Bool(FALSE))
    ELSE _saveObject(st, KEY_GRID, settings)

\* The string getters return the stored string itself, or their default.
getString(st, key, default) ==
    LET val == _getRaw(st, key)
    IN IF val = NoItem THEN Text(default) ELSE val

\* typeof x !== 'string' returns early; otherwise store and notify.
setString(st, key, x) ==
    IF x.t # "str" THEN Outcome(st, <<>>, Undefined)
    ELSE LET st2 == _setRaw(st, key, Text(x.v))
         IN Outcome(st2, <<emitChange(st2, key, x)>>, Undefined)

getTheme(st) == getString(st, KEY_THEME, "light")

setTheme(st, theme) == setString(st, KEY_THEME, theme)

getMarketTheme(st) == getString(st, KEY_MARKET_THEME, "western")

setMarketTheme(st, theme) == setString(st, KEY_MARKET_THEME, theme)

getViewMode(st) == getString(st, KEY_VIEW_MODE, "grid")

setViewMode(st, mode) == setString(st, KEY_VIEW_MODE, mode)

resetTableSettings(st) ==
    LET st2 == _removeRaw(st, KEY_TABLE)
    IN Outcome(st2, <<emitChange(st2, KEY_TABLE, Null)>>, Undefined)

-----------------------------------------------------------------------------
(* The components that read storage themselves.                            *)

defaultSettings ==
    Obj([dataRange |-> Str("ALL"),
         panelOpen |-> Bool(FALSE),
         columns |-> Obj([commodity |-> Bool(TRUE), trend |-> Bool(TRUE),
                          price |-> Bool(TRUE), chg |-> Bool(TRUE),
                          pct |-> Bool(TRUE), updated |-> Bool(TRUE)]),
         commodity |-> Obj([display |-> Str("full"), icon |-> Str("initials")]),
         trend |-> Obj([type |-> Str("area"), points |-> Str("30"),
                        showMA |-> Bool(FALSE), showHighLow |-> Bool(FALSE)]),
         price |-> Obj([format |-> Str("default"), currency |-> Str("below"),
                        precision |-> Str("2")]),
         chg |-> Obj([format |-> Str("arrow"), color |-> Str("colored")]),
         pct |-> Obj([style |-> Str("badge"), decimals |-> Str("2")]),
         updated |-> Obj([format |-> Str("iso"), time |-> Str("no")])])

\* localStorage.getItem(key) || fallback, then JSON.parse: called directly, so a
\* failing localStorage and a text that is no JSON both throw.
parseStored(st, key) ==
    IF getItemThrows THEN [threw |-> TRUE, val |-> Undefined]
    ELSE IF st.ls[key] = NoItem THEN [threw |-> FALSE, val |-> EmptyObj]
    ELSE JSONparse(st.ls[key])

\* BW.CompactTable.getSettings
CompactTable_getSettings(st) ==
    LET p == parseStored(st, KEY_TABLE)
        stored == p.val
    IN IF p.threw THEN Thrown(st, <<>>)
       ELSE IF stored.t = "null" THEN Thrown(st, <<>>)  \* stored.columns of null
       ELSE LET cols == IF Truthy(Get(stored, "columns"))
                        THEN Props(Get(stored, "columns")) ELSE NoProps
            IN Outcome(st, <<>>,
                 Obj(Spread(Spread(defaultSettings.v, Props(stored)),
                            [columns |-> Obj(Spread(defaultSettings.v.columns.v, cols))])))

\* BW.GridView.getSettings
GridView_getSettings(st) == getGridSettings(st)

\* BW.Commodity.chartSettings as the script defines it (the options of each type
\* that the model follows; the object is flat, and every option is handled alike).
CHART_DEFAULTS ==
    Obj([lineColor |-> Str("#0f5499"), fillOpacity |-> Num(15),
         enableFill |-> Bool(TRUE), showStatsBar |-> Bool(TRUE),
         chartHeight |-> Num(400)])

\* BW.Commodity.loadChartSettings: the chart settings after it. Every failure
\* inside is caught.
loadChartSettings(st, cs) ==
    IF getItemThrows THEN cs
    ELSE LET saved == st.ls[KEY_CHART]
         IN IF saved = NoItem THEN cs
            ELSE IF JSONparse(saved).threw THEN cs
            ELSE Obj(Spread(cs.v, Props(JSONparse(saved).val)))

-----------------------------------------------------------------------------
(* What a step records of the handler it ran.                              *)

\* The parts of a page that the page at hand does not have.
NoCards == [style |-> "", container |-> "", hidden |-> {}]
NoChart == [page |-> "none"]
NoModal == [page |-> "none"]
NoButtons == [page |-> "none"]
NoTable == [page |-> "none"]
NoSparklines == [page |-> "none"]
NoBoot == [page |-> "none"]

NoOp == [op |-> "none", arg |-> Null, ret |-> Undefined, threw |-> FALSE,
         ev |-> <<>>, user |-> FALSE]

\* The handler `op` ran with `arg` and ended as outcome r.
Ran(op, arg, r, user) ==
    /\ localStorage' = r.st.ls
    /\ memoryStore' = r.st.mem
    /\ lastOp' = [op |-> op, arg |-> arg, ret |-> r.ret, threw |-> r.threw,
                  ev |-> r.ev, user |-> user]

\* A read: nothing is stored, nothing emitted.
Read(op, ret) == Ran(op, Null, Outcome(Store, <<>>, ret), FALSE)

-----------------------------------------------------------------------------
(* SpecSettings: the public interface of BW.Settings, called in any order  *)
(* under each behaviour of localStorage.                                   *)

TableInputs ==
    {Obj([dataRange |-> Str("1M")]),
     Obj([trend |-> Obj([type |-> Str("line")])]),
     Circular, Null, Str("x"), Arr(<<Str("1M")>>)}

GridInputs == {Obj([dataRange |-> Str("1M")]), Obj([sort |-> Str("price")]), Circular, Null}

ThemeInputs == {Str("dark"), Str("ft"), Null, Num(1)}

MarketInputs == {Str("asian"), Null}

ViewModeInputs == {Str("compact"), Undefined}

\* What an earlier session may have left in storage.
StoredBefore ==
    {EmptyStorage,
     [EmptyStorage EXCEPT ![KEY_TABLE] = JsonText(Obj([dataRange |-> Str("3M")]))],
     [EmptyStorage EXCEPT ![KEY_THEME] = Text("bloomberg")]}

RestInit ==
    /\ lastOp = NoOp
    /\ dataTheme = "" /\ darkClass = FALSE /\ dataMarket = ""
    /\ gridControls = NoProps
    /\ chartSettings = CHART_DEFAULTS
    /\ view = "grid" /\ reqs = <<>> /\ currentRequest = 0
    /\ shown = [kind |-> "server", range |-> "", rows |-> <<>>]
    /\ loadingVisible = FALSE /\ interactive = TRUE /\ urlRange = ""
    /\ cards = NoCards /\ chart = NoChart /\ modal = NoModal
    /\ buttons = NoButtons /\ table = NoTable /\ sparklines = NoSparklines
    /\ boot = NoBoot

InitSettings ==
    /\ lsMode \in LsModes
    /\ localStorage \in (IF lsMode = "missing" THEN {EmptyStorage} ELSE StoredBefore)
    /\ memoryStore = EmptyStorage
    /\ RestInit

SettingsFrame == UNCHANGED <<lsMode, domVars, viewVars, otherVars>>

SaveTableSettings ==
    \E v \in TableInputs :
        Ran("saveTableSettings", v, saveTableSettings(Store, v), FALSE) /\ SettingsFrame

SaveGridSettings ==
    \E v \in GridInputs :
        Ran("saveGridSettings", v, saveGridSettings(Store, v), FALSE) /\ SettingsFrame

SetTheme ==
    \E v \in ThemeInputs :
        Ran("setTheme", v, setTheme(Store, v), FALSE) /\ SettingsFrame

SetMarketTheme ==
    \E v \in MarketInputs :
        Ran("setMarketTheme", v, setMarketTheme(Store, v), FALSE) /\ SettingsFrame

SetViewMode ==
    \E v \in ViewModeInputs :
        Ran("setViewMode", v, setViewMode(Store, v), FALSE) /\ SettingsFrame

ResetTableSettings ==
    Ran("resetTableSettings", Null, resetTableSettings(Store), FALSE) /\ SettingsFrame

GetTableSettings == Read("getTableSettings", getTableSettings(Store)) /\ SettingsFrame

GetGridSettings == Read("getGridSettings", getGridSettings(Store)) /\ SettingsFrame

GetTheme == Read("getTheme", getTheme(Store)) /\ SettingsFrame

GetMarketTheme == Read("getMarketTheme", getMarketTheme(Store)) /\ SettingsFrame

GetViewMode == Read("getViewMode", getViewMode(Store)) /\ SettingsFrame

NextSettings ==
    \/ SaveTableSettings \/ SaveGridSettings
    \/ SetTheme \/ SetMarketTheme \/ SetViewMode
    \/ ResetTableSettings
    \/ GetTableSettings \/ GetGridSettings
    \/ GetTheme \/ GetMarketTheme \/ GetViewMode

SpecSettings == InitSettings /\ [][NextSettings]_vars

-----------------------------------------------------------------------------
(* SpecMerge: every reader of the stored settings, applied to each stored  *)
(* value an earlier session, another script or the user may have left.     *)

\* The defined ones among the properties of f.
Defined(f) == [k \in {x \in DOMAIN f : f[x] # Undefined} |-> f[k]]

TrendStored ==
    {Undefined, EmptyObj, Obj([type |-> Str("line")]),
     Obj([points |-> Str("7"), showMA |-> Bool(TRUE)]), Null, Bool(TRUE)}

ColumnsStored == {Undefined, Obj([price |-> Bool(FALSE)]), Null}

DataRangeStored == {Undefined, Str("1M")}

FreqBadgeStored == {Undefined, Bool(FALSE)}

TableStoredObjects ==
    {Obj(Defined([trend |-> tr, columns |-> co, dataRange |-> dr, showFreqBadge |-> fb])) :
        tr \in TrendStored, co \in ColumnsStored, dr \in DataRangeStored,
        fb \in FreqBadgeStored}

TableStored ==
    {NoItem, Text("{oops")}
    \cup {JsonText(v) : v \in TableStoredObjects \cup {Null, Num(5), Arr(<<Str("1M")>>)}}

GridStored ==
    {NoItem, Text("{oops"),
     JsonText(Obj([sort |-> Str("price")])),
     JsonText(Obj([dataRange |-> Str("1M"), showFreqBadge |-> Bool(FALSE)])),
     JsonText(Null)}

ChartStored ==
    {NoItem, Text("{oops"),
     JsonText(Obj([lineColor |-> Str("#ff0000")])),
     JsonText(Null)}

\* One entry of storage at a time differs from an empty storage.
StoredForMerge ==
    {[EmptyStorage EXCEPT ![KEY_TABLE] = r] : r \in TableStored}
    \cup {[EmptyStorage EXCEPT ![KEY_GRID] = r] : r \in GridStored}
    \cup {[EmptyStorage EXCEPT ![KEY_CHART] = r] : r \in ChartStored}

InitMerge ==
    /\ lsMode \in {"ok", "setThrows", "allThrow"}
    /\ localStorage \in StoredForMerge
    /\ memoryStore = EmptyStorage
    /\ RestInit

CompactTableGetSettings ==
    /\ Ran("CompactTable.getSettings", Null, CompactTable_getSettings(Store), FALSE)
    /\ SettingsFrame

GridViewGetSettings ==
    /\ Read("GridView.getSettings", GridView_getSettings(Store))
    /\ SettingsFrame

LoadChartSettings ==
    /\ chartSettings' = loadChartSettings(Store, chartSettings)
    /\ Read("loadChartSettings", chartSettings')
    /\ UNCHANGED <<lsMode, dataTheme, darkClass, dataMarket, gridControls, cards, viewVars, otherVars>>

NextMerge ==
    \/ GetTableSettings
    \/ GetGridSettings
    \/ CompactTableGetSettings
    \/ GridViewGetSettings
    \/ LoadChartSettings

SpecMerge == InitMerge /\ [][NextMerge]_vars

-----------------------------------------------------------------------------
(* Properties of the settings store.                                       *)

\* The store a write lands in: the memory fallback when setItem throws.
WriteTarget(st) == IF setItemThrows THEN st.mem ELSE st.ls

StringSetters == {"setTheme", "setMarketTheme", "setViewMode"}
ObjectSavers == {"saveTableSettings", "saveGridSettings"}

KeyOf(op) ==
    CASE op \in {"setTheme", "getTheme"} -> KEY_THEME
      [] op \in {"setMarketTheme", "getMarketTheme"} -> KEY_MARKET_THEME
      [] op \in {"setViewMode", "getViewMode"} -> KEY_VIEW_MODE
      [] op \in {"saveTableSettings", "getTableSettings", "resetTableSettings"} -> KEY_TABLE
      [] op \in {"saveGridSettings", "getGridSettings"} -> KEY_GRID

GetterOf(op) ==
    CASE op = "setTheme" -> "getTheme"
      [] op = "setMarketTheme" -> "getMarketTheme"
      [] op = "setViewMode" -> "getViewMode"
      [] op = "saveTableSettings" -> "getTableSettings"
      [] op = "saveGridSettings" -> "getGridSettings"

\* The write the interface documents as accepted.
AcceptedWrite(op, arg) ==
    \/ op \in StringSetters /\ arg.t = "str"
    \/ op \in ObjectSavers /\ arg.t = "obj"

RejectedWrite(op, arg) ==
    /\ op \in StringSetters \cup ObjectSavers
    /\ ~AcceptedWrite(op, arg)

\* What a get is to return after a write of v.
ExpectedAfter(op, v) ==
    CASE op \in StringSetters -> {Text(v.v)}
      [] op = "saveTableSettings" -> {deepMerge(TABLE_DEFAULTS, v)}
      [] op = "saveGridSettings" -> {v, deepMerge(GRID_FALLBACK, v)}

\* C4 (as claimed): under every behaviour of localStorage no BW.Settings
\* operation throws, and a get that directly follows an accepted set or save of
\* v under the same key returns v (table settings: v merged into the defaults).
C4_GetAfterSet ==
    [][/\ ~lastOp'.threw
       /\ (/\ AcceptedWrite(lastOp.op, lastOp.arg)
           /\ lastOp'.op = GetterOf(lastOp.op))
          => lastOp'.ret \in ExpectedAfter(lastOp.op, lastOp.arg)]_vars

\* C7: an accepted write leaves the value in the store it writes to (localStorage,
\* or the memory fallback when setItem throws) and then dispatches exactly one
\* notification with its key and value (the listener already finds the new
\* storage); a reset leaves no entry to read, notifies with null, and the table
\* settings then equal the defaults; a rejected write stores and emits nothing.
C7_WriteThenNotify ==
    [][LET op == lastOp'.op
           arg == lastOp'.arg
           ev == lastOp'.ev
           after == [ls |-> localStorage', mem |-> memoryStore']
       IN /\ AcceptedWrite(op, arg) =>
                /\ WriteTarget(after)[KeyOf(op)] =
                       (IF op \in StringSetters THEN Text(arg.v) ELSE JsonText(arg))
                /\ ev = <<[key |-> KeyOf(op), value |-> arg, at |-> after]>>
          /\ RejectedWrite(op, arg) =>
                /\ localStorage' = localStorage
                /\ memoryStore' = memoryStore
                /\ ev = <<>>
          /\ op = "resetTableSettings" =>
                /\ lsGetItem(after, KEY_TABLE) = NoItem
                /\ ev = <<[key |-> KEY_TABLE, value |-> Null, at |-> after]>>
                /\ getTableSettings(after) = TABLE_DEFAULTS]_vars

\* C7's case: a reset that removed stored table settings has notified.
C7_Witness ==
    /\ lastOp.op = "resetTableSettings"
    /\ Len(lastOp.ev) = 1
    /\ localStorage[KEY_TABLE] = NoItem
    /\ localStorage[KEY_GRID] # NoItem

RECURSIVE KeepsKeys(_, _)
\* r has every key of d, at every depth.
KeepsKeys(d, r) ==
    /\ r.t = "obj"
    /\ \A k \in DOMAIN d.v :
          /\ k \in DOMAIN r.v
          /\ d.v[k].t = "obj" => KeepsKeys(d.v[k], r.v[k])

RECURSIVE TakesStored(_, _, _)
\* In r a key absent from s has d's value and a key of s has s's value, nested
\* objects compared key by key.
TakesStored(d, s, r) ==
    /\ r.t = "obj"
    /\ \A k \in DOMAIN d.v \ ObjectKeys(s) : k \in DOMAIN r.v /\ r.v[k] = d.v[k]
    /\ \A k \in ObjectKeys(s) :
          /\ k \in DOMAIN r.v
          /\ IF k \in DOMAIN d.v /\ d.v[k].t = "obj" /\ Props(s)[k].t = "obj"
             THEN TakesStored(d.v[k], Props(s)[k], r.v[k])
             ELSE r.v[k] = Props(s)[k]

RECURSIVE WellTyped(_, _)
\* s holds an object wherever d holds one.
WellTyped(d, s) ==
    /\ s.t = "obj"
    /\ \A k \in DOMAIN s.v \cap DOMAIN d.v :
          d.v[k].t = "obj" => WellTyped(d.v[k], s.v[k])

StoredTable == _getParsed(Store, KEY_TABLE)

\* C5 (as claimed): the merged table settings keep every key of the defaults at
\* every depth; an empty or absent stored object gives the defaults; an absent
\* key keeps its default and a stored key has the stored value.
C5_MergeKeepsDefaults ==
    lastOp.op = "getTableSettings" =>
        /\ KeepsKeys(TABLE_DEFAULTS, lastOp.ret)
        /\ StoredTable \in {Null, EmptyObj} => lastOp.ret = TABLE_DEFAULTS
        /\ TakesStored(TABLE_DEFAULTS, StoredTable, lastOp.ret)

\* C6 (as claimed): the settings the renderers read hold every default option of
\* every area, whatever subset of the options is stored.
C6_ReadersMergeDeep ==
    /\ (/\ lastOp.op = "CompactTable.getSettings"
        /\ lsMode = "ok"
        /\ WellTyped(defaultSettings, StoredTable))
       => /\ ~lastOp.threw
          /\ KeepsKeys(defaultSettings, lastOp.ret)
    /\ (/\ lastOp.op \in {"getGridSettings", "GridView.getSettings"}
        /\ WellTyped(GRID_FALLBACK, _getParsed(Store, KEY_GRID)))
       => KeepsKeys(GRID_FALLBACK, lastOp.ret)

IsDamaged(raw) == raw.k = "text"

\* C8 (as claimed): with a stored value that is no JSON, each reader of that key
\* returns its defaults and throws nothing.
C8_DamagedGivesDefaults ==
    lsMode = "ok" =>
        /\ (IsDamaged(localStorage[KEY_TABLE]) /\ lastOp.op = "getTableSettings")
           => ~lastOp.threw /\ lastOp.ret = TABLE_DEFAULTS
        /\ (IsDamaged(localStorage[KEY_TABLE]) /\ lastOp.op = "CompactTable.getSettings")
           => ~lastOp.threw /\ lastOp.ret = defaultSettings
        /\ (/\ IsDamaged(localStorage[KEY_GRID])
            /\ lastOp.op \in {"getGridSettings", "GridView.getSettings"})
           => ~lastOp.threw /\ lastOp.ret = GRID_FALLBACK
        /\ (IsDamaged(localStorage[KEY_CHART]) /\ lastOp.op = "loadChartSettings")
           => ~lastOp.threw /\ lastOp.ret = CHART_DEFAULTS

-----------------------------------------------------------------------------
(* Spec: the range-change fetch of a list view. A page holds one of the two *)
(* views; the user picks ranges and retries, the network answers or fails.  *)

MaxRequests == 2
MaxList == 2

RangeInputs == {"1M", "1Y"}

\* Records as /api/commodities returns them (each carries its category, name,
\* currency and date; of those the model keeps the category).
Gold == Obj([id |-> Str("gold"), price |-> Num(5), category |-> Str("metal")])
Wheat == Obj([id |-> Str("wheat"), price |-> Num(0), category |-> Str("grain")])
NoId == Obj([price |-> Num(7), category |-> Str("metal")])
NoPrice == Obj([id |-> Str("zinc"), category |-> Str("metal")])

Commodities == {Gold, Wheat, NoId, NoPrice, Null}

RECURSIVE ListsUpTo(_)
ListsUpTo(n) ==
    IF n = 0 THEN {<<>>}
    ELSE ListsUpTo(n - 1)
         \cup {Append(l, c) : l \in {x \in ListsUpTo(n - 1) : Len(x) = n - 1},
                              c \in Commodities}

\* response.data || response: a list of records, or the body of an error reply.
Payloads == {Arr(l) : l \in ListsUpTo(MaxList)} \cup {Obj([error |-> Str("Invalid range")])}

\* What the container of the view holds: the rows the server rendered, rows or
\* cards built from a response, the empty state, or the error state whose
\* button retries `range`.
ServerRendered == [kind |-> "server", range |-> "", rows |-> <<>>]
Rendered(rows) == [kind |-> "rows", range |-> "", rows |-> rows]
EmptyState == [kind |-> "empty", range |-> "", rows |-> <<>>]

errorState_DefaultRange(range) == [kind |-> "error", range |-> "ALL", rows |-> <<>>]

errorState(range) == [kind |-> "error", range |-> range, rows |-> <<>>]

\* The template literal of a card or row reads commodity.category.toUpperCase().
hasCategory(commodity) == Get(commodity, "category").t = "str"

\* The guard of BW.GridView.updateCards
isMalformed(commodity) ==
    \/ ~Truthy(commodity)
    \/ ~Truthy(Get(commodity, "id"))
    \/ Get(commodity, "price").t \in {"null", "undefined"}

isRendered(commodity) == ~isMalformed(commodity)

\* BW.GridView.updateCards: whether it threw, and what the container holds
GridView_updateCards(st, commodities) ==
    IF commodities.t # "arr" \/ Len(commodities.v) = 0
    THEN [threw |-> FALSE, shown |-> EmptyState]
    ELSE LET built == SelectSeq(commodities.v, isRendered)
         IN IF \E i \in 1..Len(built) : ~hasCategory(built[i])
            THEN [threw |-> TRUE, shown |-> EmptyState]
            ELSE [threw |-> FALSE, shown |-> Rendered(built)]

\* Building the row of a record throws a TypeError on a null record
\* (commodity.change), on a missing id (commodity.id.slice) and on a missing
\* category.
rowThrows(commodity) ==
    \/ commodity.t \in {"null", "undefined"}
    \/ Get(commodity, "id").t # "str"
    \/ ~hasCategory(commodity)

\* BW.CompactTable.updateTableData: whether it threw, and the rows of the table
CompactTable_updateTableData(st, commodities) ==
    IF CompactTable_getSettings(st).threw THEN [threw |-> TRUE, shown |-> Rendered(<<>>)]
    ELSE IF commodities.t # "arr" THEN [threw |-> TRUE, shown |-> Rendered(<<>>)]
    ELSE IF \E i \in 1..Len(commodities.v) : rowThrows(commodities.v[i])
    THEN [threw |-> TRUE, shown |-> Rendered(<<>>)]
    ELSE [threw |-> FALSE, shown |-> Rendered(commodities.v)]

\* A fetch: the range asked for and where it stands. "pending": no answer yet;
\* "aborting": its controller was aborted and the rejection is queued;
\* "aborted": the catch handler has seen the AbortError; "done": answered;
\* "failed": rejected for another reason.
Request(range) == [range |-> range, status |-> "pending"]

abortCurrent_Skipped(rs, cur) == rs

\* if (this.currentRequest) this.currentRequest.abort(): aborting a fetch that
\* has settled does nothing.
abortCurrent(rs, cur) ==
    IF cur # 0 /\ rs[cur].status = "pending"
    THEN [rs EXCEPT ![cur].status = "aborting"]
    ELSE rs

\* The rejection of an aborted fetch is a microtask: its handlers run before
\* the browser dispatches the next event.
MicrotasksDrained == \A i \in 1..Len(reqs) : reqs[i].status # "aborting"

\* The part of setDataRange after the settings are saved, the same in both
\* views up to the order of its statements: push the URL, show the loading
\* state, abort the held request, fetch with a new controller.
IssueRequest(range) ==
    /\ urlRange' = range
    /\ loadingVisible' = TRUE
    /\ interactive' = FALSE
    /\ reqs' = Append(abortCurrent(reqs, currentRequest), Request(range))
    /\ currentRequest' = Len(reqs) + 1
    /\ UNCHANGED shown

\* settings.dataRange = range on what getSettings returned
withDataRange(settings, range) ==
    IF settings.t = "obj" THEN Obj(Spread(settings.v, [dataRange |-> Str(range)]))
    ELSE settings

\* The first three lines of BW.GridView.setDataRange
GridView_saveRange(st, range) ==
    saveGridSettings(st, withDataRange(GridView_getSettings(st), range))

\* BW.CompactTable.saveSettings: localStorage.setItem, called directly
CompactTable_saveSettings(st, settings) ==
    IF setItemThrows THEN Thrown(st, <<>>)
    ELSE Outcome([st EXCEPT !.ls[KEY_TABLE] = JsonText(settings)], <<>>, Undefined)

\* The first three lines of BW.CompactTable.setDataRange
CompactTable_saveRange(st, range) ==
    LET got == CompactTable_getSettings(st)
    IN IF got.threw THEN got
       ELSE CompactTable_saveSettings(st, withDataRange(got.ret, range))

GridView_setDataRange(op, range) ==
    /\ Ran(op, Str(range), GridView_saveRange(Store, range), TRUE)
    /\ IssueRequest(range)
    /\ UNCHANGED <<lsMode, domVars, view, otherVars>>

\* An exception in the first lines leaves the handler before anything else.
CompactTable_setDataRange(op, range) ==
    LET r == CompactTable_saveRange(Store, range)
    IN /\ Ran(op, Str(range), r, TRUE)
       /\ IF r.threw
          THEN UNCHANGED <<reqs, currentRequest, shown, loadingVisible, interactive, urlRange>>
          ELSE IssueRequest(range)
       /\ UNCHANGED <<lsMode, domVars, view, otherVars>>

\* The user picks a range.
GridSetDataRange ==
    /\ view = "grid" /\ MicrotasksDrained /\ Len(reqs) < MaxRequests
    /\ \E range \in RangeInputs : GridView_setDataRange("setDataRange", range)

TableSetDataRange ==
    /\ view = "table" /\ MicrotasksDrained /\ Len(reqs) < MaxRequests
    /\ \E range \in RangeInputs : CompactTable_setDataRange("setDataRange", range)

\* The user activates the button of the error state.
GridRetry ==
    /\ view = "grid" /\ MicrotasksDrained /\ Len(reqs) < MaxRequests
    /\ shown.kind = "error"
    /\ GridView_setDataRange("retry", shown.range)

TableRetry ==
    /\ view = "table" /\ MicrotasksDrained /\ Len(reqs) < MaxRequests
    /\ shown.kind = "error"
    /\ CompactTable_setDataRange("retry", shown.range)

\* What a callback of a fetch records: it stores nothing.
Callback(op, arg) == Ran(op, arg, Outcome(Store, <<>>, Undefined), FALSE)

ViewFrame == UNCHANGED <<lsMode, domVars, view, currentRequest, urlRange, otherVars>>

\* The frame of a grid callback, which replaces the cards.
GridFrame ==
    UNCHANGED <<lsMode, dataTheme, darkClass, dataMarket, gridControls, chartSettings,
                view, currentRequest, urlRange, otherVars>>

\* The container without cards (the empty or the error state).
withoutCards(look) == [look EXCEPT !.style = "", !.hidden = {}]

\* How the cards that BW.GridView.updateCards builds are presented: each is
\* the full card of the template, and of the settings only showFreqBadge is
\* read; the class of the container stays as it was.
GridView_updateCardsLook(st, r, look) ==
    IF r.threw \/ r.shown.kind # "rows" THEN withoutCards(look)
    ELSE [look EXCEPT !.style = "card",
                      !.hidden = IF Get(GridView_getSettings(st), "showFreqBadge") = Bool(FALSE)
                                 THEN {"showFreqBadge"} ELSE {}]

\* The then-handler of BW.GridView.setDataRange; if updateCards throws, the
\* catch handler follows with an error that is no AbortError.
GridResponse ==
    /\ view = "grid" /\ MicrotasksDrained
    /\ \E i \in 1..Len(reqs), data \in Payloads :
          LET r == GridView_updateCards(Store, data)
          IN /\ reqs[i].status = "pending"
             /\ reqs' = [reqs EXCEPT ![i].status = "done"]
             /\ shown' = IF r.threw THEN errorState(reqs[i].range) ELSE r.shown
             /\ cards' = GridView_updateCardsLook(Store, r, cards)
             /\ loadingVisible' = FALSE
             /\ interactive' = TRUE
             /\ Callback("response", data)
             /\ GridFrame

\* The then-handler of BW.CompactTable.setDataRange, and the catch handler after
\* it if updateTableData throws.
TableResponse ==
    /\ view = "table" /\ MicrotasksDrained
    /\ \E i \in 1..Len(reqs), data \in Payloads :
          LET r == CompactTable_updateTableData(Store, data)
          IN /\ reqs[i].status = "pending"
             /\ reqs' = [reqs EXCEPT ![i].status = "done"]
             /\ shown' = IF r.threw THEN errorState(reqs[i].range) ELSE r.shown
             /\ loadingVisible' = FALSE
             /\ interactive' = TRUE
             /\ Callback("response", data)
             /\ ViewFrame

\* The catch handler on a network error or a body that is no JSON.
GridFailure ==
    /\ view = "grid" /\ MicrotasksDrained
    /\ \E i \in 1..Len(reqs) :
          /\ reqs[i].status = "pending"
          /\ reqs' = [reqs EXCEPT ![i].status = "failed"]
          /\ shown' = errorState(reqs[i].range)
          /\ cards' = withoutCards(cards)
          /\ loadingVisible' = FALSE
          /\ interactive' = TRUE
          /\ Callback("failure", Num(i))
          /\ GridFrame

TableFailure ==
    /\ view = "table" /\ MicrotasksDrained
    /\ \E i \in 1..Len(reqs) :
          /\ reqs[i].status = "pending"
          /\ reqs' = [reqs EXCEPT ![i].status = "failed"]
          /\ shown' = errorState(reqs[i].range)
          /\ loadingVisible' = FALSE
          /\ interactive' = TRUE
          /\ Callback("failure", Num(i))
          /\ ViewFrame

\* The catch handler on the AbortError of an aborted fetch: BW.GridView returns
\* at once.
GridAbortDelivered ==
    /\ view = "grid"
    /\ \E i \in 1..Len(reqs) :
          /\ reqs[i].status = "aborting"
          /\ reqs' = [reqs EXCEPT ![i].status = "aborted"]
          /\ Callback("abort", Num(i))
          /\ UNCHANGED <<shown, loadingVisible, interactive>>
          /\ ViewFrame

\* BW.CompactTable's catch handler does not look at the error's name.
TableAbortDelivered ==
    /\ view = "table"
    /\ \E i \in 1..Len(reqs) :
          /\ reqs[i].status = "aborting"
          /\ reqs' = [reqs EXCEPT ![i].status = "aborted"]
          /\ shown' = errorState(reqs[i].range)
          /\ loadingVisible' = FALSE
          /\ interactive' = TRUE
          /\ Callback("abort", Num(i))
          /\ ViewFrame

\* What storage holds when the page opens.
StoredForViews ==
    {EmptyStorage,
     [EmptyStorage EXCEPT ![KEY_TABLE] = Text("{oops")],
     [EmptyStorage EXCEPT ![KEY_TABLE] = JsonText(Obj([trend |-> Obj([type |-> Str("line")])])),
                          ![KEY_GRID] = JsonText(Obj([sort |-> Str("price")]))]}

Init ==
    /\ lsMode \in LsModes
    /\ localStorage \in (IF lsMode = "missing" THEN {EmptyStorage} ELSE StoredForViews)
    /\ memoryStore = EmptyStorage
    /\ lastOp = NoOp
    /\ dataTheme = "" /\ darkClass = FALSE /\ dataMarket = ""
    /\ gridControls = NoProps
    /\ chartSettings = CHART_DEFAULTS
    /\ view \in {"grid", "table"}
    /\ reqs = <<>> /\ currentRequest = 0
    /\ shown = ServerRendered
    /\ loadingVisible = FALSE /\ interactive = TRUE /\ urlRange = ""
    /\ cards = NoCards /\ chart = NoChart /\ modal = NoModal
    /\ buttons = NoButtons /\ table = NoTable /\ sparklines = NoSparklines
    /\ boot = NoBoot

Next ==
    \/ GridSetDataRange \/ TableSetDataRange
    \/ GridRetry \/ TableRetry
    \/ GridResponse \/ TableResponse
    \/ GridFailure \/ TableFailure
    \/ GridAbortDelivered \/ TableAbortDelivered

Spec == Init /\ [][Next]_vars

-----------------------------------------------------------------------------
(* Properties of the range-change fetch.                                   *)

LastRequest == Len(reqs)

\* C1: of the fetches a view has issued, only the one issued last can be pending
\* and not aborted, and it is the one currentRequest holds; whatever the earlier
\* setDataRange calls issued has been aborted or has settled.
C1_OnePendingRequest ==
    /\ currentRequest = LastRequest
    /\ \A i \in 1..Len(reqs) : reqs[i].status = "pending" => i = LastRequest

\* C1's case: a later setDataRange found the earlier fetch pending and aborted
\* it, and its own fetch is pending.
C1_Witness ==
    /\ Len(reqs) >= 2
    /\ reqs[LastRequest].status = "pending"
    /\ reqs[LastRequest - 1].status \in {"aborting", "aborted"}

\* C2 (as claimed): the completion of a fetch that a later setDataRange has
\* superseded leaves the rows or cards, the error state, the loading indicator
\* and the interactivity of the view as they were.
C2_SupersededChangesNothing ==
    [][\A i \in 1..Len(reqs) :
          (/\ Len(reqs') = Len(reqs)
           /\ i < LastRequest
           /\ reqs'[i].status # reqs[i].status)
          => /\ shown' = shown
             /\ loadingVisible' = loadingVisible
             /\ interactive' = interactive]_vars

\* C3: once the latest fetch has failed (not by an abort), the view shows the
\* error state whose retry carries that fetch's range, with the loading state
\* gone; a retry then issues a fetch for that same range; and a fetch is only
\* ever issued by a step the user triggers.
C3_FailureOffersRetry ==
    [][/\ (Len(reqs') > 0 /\ reqs'[Len(reqs')].status = "failed")
          => /\ shown'.kind = "error"
             /\ shown'.range = reqs'[Len(reqs')].range
             /\ ~loadingVisible'
             /\ interactive'
       /\ (/\ lastOp'.op = "retry"
           /\ ~lastOp'.threw
           /\ Len(reqs) > 0
           /\ reqs[Len(reqs)].status = "failed")
          => /\ Len(reqs') = Len(reqs) + 1
             /\ reqs'[Len(reqs')] = Request(reqs[Len(reqs)].range)
       /\ Len(reqs') > Len(reqs) => lastOp'.user]_vars

\* C3's case: the user retried after a failure and the fetch for the failed
\* range is pending again.
C3_Witness ==
    /\ lastOp.op = "retry"
    /\ Len(reqs) >= 2
    /\ reqs[LastRequest - 1].status = "failed"
    /\ reqs[LastRequest] = Request(reqs[LastRequest - 1].range)

\* C9 (as claimed): after a response that carries a list, the view holds one
\* row or card for each well-formed record of the list, in the order of
\* the list, and nothing for a malformed one; the render does not end in the
\* error state.
C9_MalformedSkipped ==
    (lastOp.op = "response" /\ lastOp.arg.t = "arr")
        => /\ shown.kind \in {"rows", "empty"}
           /\ shown.rows = SelectSeq(lastOp.arg.v, isRendered)

-----------------------------------------------------------------------------
(* SpecPage: what runs when a page loads (the init of each script, in any  *)
(* order and on any page) and what the user then does in the settings UI.  *)
(* BW.Settings is loaded, as BW.GridView and BW.Index require.             *)

\* A string read from storage counts as true in a condition.
RawTruthy(raw) == raw # NoItem /\ raw # Text("")

\* safeGet of theme.js: localStorage.getItem, null when it throws
safeGet(st, key) == IF getItemThrows THEN NoItem ELSE st.ls[key]

\* safeSet of theme.js: localStorage.setItem, nothing when it throws
safeSet(st, key, val) == IF setItemThrows THEN st ELSE [st EXCEPT !.ls[key] = Text(val)]

isDarkThemeName(name) == name \in {"dark", "mono-dark", "bloomberg"}

AllowedThemes == {"light", "dark", "mono-light", "mono-dark", "bloomberg", "ft", "mono"}

\* BW.Base's normalizeTheme: the stored name if it is a known theme, else null
\* (the stored names of the model carry no surrounding blanks to trim).
normalizeTheme(raw) ==
    IF RawTruthy(raw) /\ raw.k = "text" /\ raw.s \in AllowedThemes THEN raw ELSE NoItem

detectInitialTheme(st, prefersDark) ==
    LET stored == normalizeTheme(safeGet(st, KEY_THEME))
    IN IF stored # NoItem THEN stored.s
       ELSE IF prefersDark THEN "dark" ELSE "light"

detectInitialMarket(st) ==
    IF RawTruthy(safeGet(st, KEY_MARKET_THEME)) THEN safeGet(st, KEY_MARKET_THEME).s
    ELSE "western"

PageFrame == UNCHANGED <<lsMode, viewVars, cards, otherVars>>

\* BW.Base.initTheme and initMarketTheme, run as the script loads: attributes
\* of <html> only.
BaseInitTheme ==
    \E prefersDark \in BOOLEAN :
        /\ dataTheme' = detectInitialTheme(Store, prefersDark)
        /\ darkClass' = isDarkThemeName(dataTheme')
        /\ dataMarket' = detectInitialMarket(Store)
        /\ Read("Base.initTheme", Undefined)
        /\ UNCHANGED <<gridControls, chartSettings>>
        /\ PageFrame

\* BW.Base.initOnReady
BaseInitOnReady ==
    /\ dataMarket' = detectInitialMarket(Store)
    /\ Read("Base.initOnReady", Undefined)
    /\ UNCHANGED <<dataTheme, darkClass, gridControls, chartSettings>>
    /\ PageFrame

\* The theme BW.Theme.init settles on: BW.Settings.getTheme() || 'light', and
\* 'dark' if the system prefers it and nothing explicit is stored.
Theme_initialTheme(st, prefersDark) ==
    LET theme == IF RawTruthy(getTheme(st)) THEN getTheme(st).s ELSE "light"
    IN IF /\ theme = "light"
          /\ prefersDark
          /\ ~RawTruthy(safeGet(st, KEY_THEME))
          /\ ~RawTruthy(getTheme(st))
       THEN "dark" ELSE theme

Theme_initialMarket(st) ==
    IF RawTruthy(getMarketTheme(st)) THEN getMarketTheme(st).s ELSE "western"

\* BW.Theme.init: applyTheme and applyMarketTheme set the attributes and store
\* the name through BW.Settings.
ThemeInit ==
    \E prefersDark \in BOOLEAN :
        LET theme == Theme_initialTheme(Store, prefersDark)
            r1 == setTheme(Store, Str(theme))
            market == Theme_initialMarket(r1.st)
            r2 == setMarketTheme(r1.st, Str(market))
        IN /\ dataTheme' = theme
           /\ darkClass' = isDarkThemeName(theme)
           /\ dataMarket' = market
           /\ Ran("Theme.init", Null, Outcome(r2.st, r1.ev \o r2.ev, Undefined), FALSE)
           /\ UNCHANGED <<gridControls, chartSettings>>
           /\ PageFrame

\* BW.Theme.applyTheme from a theme button
ThemeApplyTheme ==
    \E theme \in {"ft"} :
        /\ dataTheme' = theme
        /\ darkClass' = isDarkThemeName(theme)
        /\ Ran("Theme.applyTheme", Str(theme), setTheme(Store, Str(theme)), TRUE)
        /\ UNCHANGED <<dataMarket, gridControls, chartSettings>>
        /\ PageFrame

\* BW.Index.init reads the view mode and shows that view.
IndexInit ==
    /\ Read("Index.init", getViewMode(Store))
    /\ UNCHANGED domVars
    /\ PageFrame

GridCheckboxes ==
    {"showCategory", "showChangePct", "showChangeAbs", "showDate", "showUnit",
     "showFreqBadge"}

GridSelects == {"columns", "sort", "cardStyle"}

\* The value updateSettings takes for a select that has none.
GridSelectDefault(k) ==
    CASE k = "columns" -> Str("auto") [] k = "sort" -> Str("name")
      [] k = "cardStyle" -> Str("card")

\* The settings panel as the page delivers it: every box checked, every select
\* at its first option.
TemplateControls ==
    [k \in GridCheckboxes \cup GridSelects |->
        IF k \in GridCheckboxes THEN Bool(TRUE) ELSE GridSelectDefault(k)]

\* BW.GridView.loadGridSettings: the controls after the stored settings are
\* applied to them.
loadGridSettings(settings, controls) ==
    [k \in DOMAIN controls |->
        IF k \in GridCheckboxes THEN Bool(Get(settings, k) # Bool(FALSE))
        ELSE IF Truthy(Get(settings, k)) THEN Get(settings, k)
        ELSE controls[k]]

GridView_saveSettings(st, settings) == saveGridSettings(st, settings)

\* BW.GridView.updateSettings: read the settings, overwrite them from the
\* controls, save.
GridView_updateSettings(st, controls) ==
    LET settings == GridView_getSettings(st)
        read == [k \in DOMAIN controls |->
                    IF k \in GridSelects /\ ~Truthy(controls[k])
                    THEN GridSelectDefault(k) ELSE controls[k]]
    IN GridView_saveSettings(st, IF settings.t = "obj"
                                  THEN Obj(Spread(settings.v, read)) ELSE settings)

\* The values updateSettings reads from the controls.
readControls(controls) ==
    [k \in DOMAIN controls |->
        IF k \in GridSelects /\ ~Truthy(controls[k]) THEN GridSelectDefault(k) ELSE controls[k]]

\* The order of the names of the records under localeCompare.
nameRank(card) ==
    CASE Get(card, "id") = Str("gold") -> 1
      [] Get(card, "id") = Str("wheat") -> 2
      [] OTHER -> 3

\* parseFloat(card.dataset.price) || 0
cardPrice(card) == IF Get(card, "price").t = "num" THEN Get(card, "price").v ELSE 0

\* The comparator of updateSettings (the records of the model carry no change,
\* so that dataset.changePct is 0 on every card).
compareCards(sort, a, b) ==
    CASE sort = Str("name") -> nameRank(a) - nameRank(b)
      [] sort = Str("name-desc") -> nameRank(b) - nameRank(a)
      [] sort = Str("price-desc") -> cardPrice(b) - cardPrice(a)
      [] sort = Str("price-asc") -> cardPrice(a) - cardPrice(b)
      [] OTHER -> 0

\* Array.prototype.sort on the cards: a stable sort.
RECURSIVE insertCard(_, _, _)
insertCard(sorted, card, sort) ==
    IF sorted = <<>> THEN <<card>>
    ELSE IF compareCards(sort, card, sorted[Len(sorted)]) < 0
         THEN Append(insertCard(SubSeq(sorted, 1, Len(sorted) - 1), card, sort),
                     sorted[Len(sorted)])
         ELSE Append(sorted, card)

RECURSIVE sortCards(_, _)
sortCards(rows, sort) ==
    IF rows = <<>> THEN <<>>
    ELSE insertCard(sortCards(SubSeq(rows, 1, Len(rows) - 1), sort), rows[Len(rows)], sort)

\* What BW.GridView.updateSettings does to the cards that are in the container:
\* the class of the container and the style of each card follow cardStyle, the
\* parts whose box is unchecked are hidden, and the cards are put in the order
\* of sort.
GridView_updateSettingsLook(controls, sh) ==
    LET read == readControls(controls)
    IN [style |-> IF sh.kind \in {"empty", "error"} THEN "" ELSE read.cardStyle.v,
        container |-> read.cardStyle.v,
        hidden |-> IF sh.kind \in {"empty", "error"} THEN {}
                   ELSE {k \in GridCheckboxes : read[k] = Bool(FALSE)}]

GridView_updateSettingsOrder(controls, sh) ==
    [sh EXCEPT !.rows = sortCards(sh.rows, readControls(controls).sort)]

\* The frame of a handler of the grid settings panel.
PanelFrame ==
    UNCHANGED <<lsMode, dataTheme, darkClass, dataMarket, chartSettings, view, reqs,
                currentRequest, loadingVisible, interactive, urlRange, otherVars>>

\* BW.GridView.init: loadGridSettings ends with updateSettings.
GridViewInit ==
    /\ gridControls' = loadGridSettings(GridView_getSettings(Store), gridControls)
    /\ Ran("GridView.init", Null, GridView_updateSettings(Store, gridControls'), FALSE)
    /\ cards' = GridView_updateSettingsLook(gridControls', shown)
    /\ shown' = GridView_updateSettingsOrder(gridControls', shown)
    /\ PanelFrame

\* The user changes a control of the grid settings panel (onchange runs
\* updateGridSettings).
updateGridSettings(k, v) ==
    /\ gridControls' = [gridControls EXCEPT ![k] = v]
    /\ Ran("GridView.updateSettings", Str(k),
           GridView_updateSettings(Store, gridControls'), TRUE)
    /\ cards' = GridView_updateSettingsLook(gridControls', shown)
    /\ shown' = GridView_updateSettingsOrder(gridControls', shown)

GridControlChange ==
    \E k \in {"showFreqBadge", "sort"} :
        \E v \in (IF k = "sort" THEN {Str("name"), Str("price")} ELSE {Bool(TRUE), Bool(FALSE)}) :
            /\ updateGridSettings(k, v)
            /\ PanelFrame

\* BW.CompactTable.init: loadSettings and initDataRange read the settings.
CompactTableInit ==
    /\ Ran("CompactTable.init", Null, CompactTable_getSettings(Store), FALSE)
    /\ UNCHANGED domVars
    /\ PageFrame

\* BW.SettingsModal.applyTheme: localStorage.getItem('theme') || 'light' in a try
SettingsModal_theme(st) ==
    IF RawTruthy(safeGet(st, KEY_THEME)) THEN safeGet(st, KEY_THEME).s ELSE "light"

\* BW.SettingsModal.init
SettingsModalInit ==
    /\ dataTheme' = SettingsModal_theme(Store)
    /\ darkClass' = isDarkThemeName(dataTheme')
    /\ Read("SettingsModal.init", Undefined)
    /\ UNCHANGED <<dataMarket, gridControls, chartSettings>>
    /\ PageFrame

\* BW.SettingsModal.setTheme from a button of the modal
SettingsModalSetTheme ==
    \E mode \in {"dark"} :
        LET st2 == safeSet(Store, KEY_THEME, mode)
        IN /\ dataTheme' = SettingsModal_theme(st2)
           /\ darkClass' = isDarkThemeName(dataTheme')
           /\ Ran("SettingsModal.setTheme", Str(mode), Outcome(st2, <<>>, Undefined), TRUE)
           /\ UNCHANGED <<dataMarket, gridControls, chartSettings>>
           /\ PageFrame

(***************************************************************************)
(* The detail page: BW.Commodity.                                          *)
(*                                                                         *)
(* A date string 'YYYY-MM-DD' is the triple <<y, m, d>>.  new Date(string) *)
(* is midnight UTC of that day; getDate, getMonth, setDate, setMonth and   *)
(* setFullYear work on the local calendar.  Every instant that occurs is   *)
(* the UTC midnight of a day, kept as the number of that day since         *)
(* FirstYear-01-01.  `shift` is 0 where the local day at UTC midnight is   *)
(* the same day (UTC and the zones east of it), and 1 where it is still    *)
(* the day before (the zones west of it).                                  *)
(***************************************************************************)

FirstYear == 2022

IsLeap(y) == (y % 4 = 0 /\ y % 100 # 0) \/ y % 400 = 0

DaysInMonth(y, m) ==
    CASE m \in {4, 6, 9, 11} -> 30
      [] m = 2 -> IF IsLeap(y) THEN 29 ELSE 28
      [] OTHER -> 31

YearLength(y) == IF IsLeap(y) THEN 366 ELSE 365

RECURSIVE DaysBeforeYear(_)
DaysBeforeYear(y) ==
    IF y = FirstYear THEN 0
    ELSE IF y > FirstYear THEN DaysBeforeYear(y - 1) + YearLength(y - 1)
    ELSE DaysBeforeYear(y + 1) - YearLength(y)

RECURSIVE DaysBeforeMonth(_, _)
DaysBeforeMonth(y, m) ==
    IF m <= 1 THEN 0 ELSE DaysBeforeMonth(y, m - 1) + DaysInMonth(y, m - 1)

\* MakeDay of the Date object: a month outside 1..12 carries into the year, a
\* day outside the month carries into the neighbouring months.
MakeDay(y, m, d) ==
    LET yy == y + ((m - 1) \div 12)
        mm == ((m - 1) % 12) + 1
    IN DaysBeforeYear(yy) + DaysBeforeMonth(yy, mm) + d - 1

\* The calendar day of a day number (of FirstYear or later): the year, then
\* the month, then the day.
RECURSIVE YearFromDay(_, _)
YearFromDay(n, y) ==
    IF n < YearLength(y) THEN <<y, n>> ELSE YearFromDay(n - YearLength(y), y + 1)

RECURSIVE MonthFromDay(_, _, _)
MonthFromDay(y, m, n) ==
    IF n < DaysInMonth(y, m) THEN <<y, m, n + 1>>
    ELSE MonthFromDay(y, m + 1, n - DaysInMonth(y, m))

DateOf(n) ==
    LET inYear == YearFromDay(n, FirstYear)
    IN MonthFromDay(inYear[1], 1, inYear[2])

\* new Date('YYYY-MM-DD')
newDate(ymd) == MakeDay(ymd[1], ymd[2], ymd[3])

\* An array: `ref` tells one array object from another, `items` are its
\* elements.
Array(ref, items) == [ref |-> ref, items |-> items]

\* The switch with a '1M' case that sets the day back by one instead of the
\* month.
cutoffDate_DayForMonth(latestDataDate, range, shift) ==
    LET local == DateOf(latestDataDate - shift)
        y == local[1]
        m == local[2]
        d == local[3]
    IN shift + (CASE range = "1W" -> MakeDay(y, m, d - 7)
                  [] range = "1M" -> MakeDay(y, m, d - 1)
                  [] range = "3M" -> MakeDay(y, m - 3, d)
                  [] range = "6M" -> MakeDay(y, m - 6, d)
                  [] range = "1Y" -> MakeDay(y - 1, m, d)
                  [] OTHER -> MakeDay(y, m, d))

\* The switch of filterDataByRange: cutoffDate after the setter of the range
\* (a range without a case leaves it at the latest date).
cutoffDate(latestDataDate, range, shift) ==
    LET local == DateOf(latestDataDate - shift)
        y == local[1]
        m == local[2]
        d == local[3]
    IN shift + (CASE range = "1W" -> MakeDay(y, m, d - 7)
                  [] range = "1M" -> MakeDay(y, m - 1, d)
                  [] range = "3M" -> MakeDay(y, m - 3, d)
                  [] range = "6M" -> MakeDay(y, m - 6, d)
                  [] range = "1Y" -> MakeDay(y - 1, m, d)
                  [] OTHER -> MakeDay(y, m, d))

\* filterDataByRange with a result that is always a new array.
filterDataByRange_Copying(data, range, shift) ==
    IF data = Null THEN Array("filtered", <<>>)
    ELSE IF data.items = <<>> THEN Array("filtered", <<>>)
    ELSE LET latestDataDate == newDate(data.items[Len(data.items)].date)
             cutoff == IF range = "ALL" THEN 0 ELSE cutoffDate(latestDataDate, range, shift)
             kept(item) == newDate(item.date) >= cutoff
         IN Array("filtered", SelectSeq(data.items, kept))

\* BW.Commodity.filterDataByRange
filterDataByRange(data, range, shift) ==
    IF range = "ALL" \/ data = Null THEN data
    ELSE IF Len(data.items) = 0 THEN data
    ELSE LET latestDataDate == newDate(data.items[Len(data.items)].date)
             cutoff == cutoffDate(latestDataDate, range, shift)
             kept(item) == newDate(item.date) >= cutoff
         IN Array("filtered", SelectSeq(data.items, kept))

\* The result of a division of JavaScript that has no finite value.
NaN == [t |-> "nan", v |-> 0]
Infinity(sign) == [t |-> "infinity", v |-> sign]

\* ((p - basePrice) / basePrice) * 100 (the prices of the model are such that
\* the quotient is exact in binary floating point)
percentage(p, basePrice) ==
    IF basePrice = 0
    THEN (IF p = 0 THEN NaN ELSE IF p > 0 THEN Infinity(1) ELSE Infinity(-1))
    ELSE Num(((p - basePrice) * 100) \div basePrice)

\* updateChart that leaves the chart as it is.
updateChart_Skipped(c, settings) == c

\* BW.Commodity.updateChart: the labels and the data of the Chart it creates
\* (filteredData.map throws on null, and the chart stays as it was).
updateChart(c, settings) ==
    IF c.page = "none" THEN c
    ELSE LET filteredData == filterDataByRange(c.fullHistoryData, c.currentRange, c.shift)
         IN IF filteredData = Null THEN c
            ELSE LET items == filteredData.items
                     labels == [i \in 1..Len(items) |-> items[i].date]
                     prices == [i \in 1..Len(items) |-> items[i].price]
                     basePrice == IF Len(prices) > 0 THEN prices[1] ELSE 1
                     percentages == [i \in 1..Len(prices) |-> percentage(prices[i], basePrice)]
                     chartData == IF c.currentViewMode = "percent" THEN percentages
                                  ELSE [i \in 1..Len(prices) |-> Num(prices[i])]
                 IN [c EXCEPT !.priceChart = [labels |-> labels, data |-> chartData,
                                              fill |-> /\ c.currentChartType = "area"
                                                       /\ Truthy(Get(settings, "enableFill"))]]

\* The frame of a handler of the detail page.
ChartFrame == UNCHANGED <<lsMode, viewVars, cards, modal, restVars>>


\* BW.Commodity.init on a page with the chart
CommodityInit ==
    /\ chartSettings' = loadChartSettings(Store, chartSettings)
    /\ Read("Commodity.init", Undefined)
    /\ chart' = updateChart(chart, chartSettings')
    /\ UNCHANGED <<dataTheme, darkClass, dataMarket, gridControls>>
    /\ ChartFrame

\* BW.Commodity.saveChartSettings: localStorage.setItem in a try
saveChartSettings(st, cs) ==
    IF setItemThrows THEN st ELSE [st EXCEPT !.ls[KEY_CHART] = JsonText(cs)]

\* parseFloat on the texts the controls of the model deliver
parseFloat(value) ==
    CASE value.t = "num" -> value
      [] value = Str("30") -> Num(30)
      [] value = Str("450") -> Num(450)

\* The conversion at the head of BW.Commodity.updateChartSetting
convertSetting(current, value) ==
    IF current.t = "num" THEN parseFloat(value)
    ELSE IF current.t = "bool" THEN Bool(value = Bool(TRUE) \/ value = Str("true"))
    ELSE value

ChartInputs ==
    {<<"fillOpacity", Str("30")>>, <<"enableFill", Str("false")>>}

\* BW.Commodity.updateChartSetting from a control of the chart settings
UpdateChartSetting ==
    \E in \in ChartInputs :
        LET key == in[1]
            value == convertSetting(Get(chartSettings, key), in[2])
        IN /\ chartSettings' = Obj(Spread(chartSettings.v, [k \in {key} |-> value]))
           /\ Ran("updateChartSetting", Str(key),
                  Outcome(saveChartSettings(Store, chartSettings'), <<>>, Undefined), TRUE)
           /\ chart' = updateChart(chart, chartSettings')
           /\ UNCHANGED <<dataTheme, darkClass, dataMarket, gridControls>>
           /\ ChartFrame

\* What an earlier visit may have left in storage.
StoredForPage ==
    {EmptyStorage,
     [EmptyStorage EXCEPT ![KEY_THEME] = Text("bloomberg"),
                          ![KEY_GRID] = JsonText(Obj([sort |-> Str("price")]))],
     [EmptyStorage EXCEPT ![KEY_THEME] = Text(""),
                          ![KEY_CHART] = JsonText(Obj([lineColor |-> Str("#00ff00")]))],
     [EmptyStorage EXCEPT ![KEY_THEME] = Text("solarized"),
                          ![KEY_MARKET_THEME] = Text("asian"),
                          ![KEY_TABLE] = Text("{oops")]}

InitPage ==
    /\ lsMode \in LsModes
    /\ localStorage \in (IF lsMode = "missing" THEN {EmptyStorage} ELSE StoredForPage)
    /\ memoryStore = EmptyStorage
    /\ lastOp = NoOp
    /\ dataTheme = "" /\ darkClass = FALSE /\ dataMarket = ""
    /\ gridControls = TemplateControls
    /\ chartSettings = CHART_DEFAULTS
    /\ view = "grid" /\ reqs = <<>> /\ currentRequest = 0
    /\ shown = ServerRendered
    /\ loadingVisible = FALSE /\ interactive = TRUE /\ urlRange = ""
    /\ cards = NoCards /\ chart = NoChart /\ modal = NoModal
    /\ buttons = NoButtons /\ table = NoTable /\ sparklines = NoSparklines
    /\ boot = NoBoot

NextPage ==
    \/ BaseInitTheme \/ BaseInitOnReady
    \/ ThemeInit \/ IndexInit
    \/ GridViewInit \/ CompactTableInit
    \/ SettingsModalInit \/ CommodityInit
    \/ ThemeApplyTheme \/ SettingsModalSetTheme
    \/ GridControlChange \/ UpdateChartSetting

SpecPage == InitPage /\ [][NextPage]_vars

\* The entry of storage that a user action of the settings UI is to write.
PersistedBy(op, arg, ls, controls, stored) ==
    CASE op \in {"Theme.applyTheme", "SettingsModal.setTheme"} -> ls[KEY_THEME] = Text(arg.v)
      [] op = "GridView.updateSettings" ->
            \A k \in DOMAIN controls : Get(safeParse(ls[KEY_GRID]), k) = controls[k]
      [] op = "updateChartSetting" -> ls[KEY_CHART] = JsonText(stored)
      [] OTHER -> TRUE

\* C10 (as claimed): what storage (or its memory fallback) holds changes only in
\* a step the user triggers, so the init of a page leaves it as it was; and
\* with a working localStorage a user action has stored its value by the end of
\* its step.
C10_OnlyUserActionsPersist ==
    [][/\ (localStorage' # localStorage \/ memoryStore' # memoryStore) => lastOp'.user
       /\ (lastOp'.user /\ lsMode = "ok")
          => PersistedBy(lastOp'.op, lastOp'.arg, localStorage', gridControls',
                         chartSettings')]_vars


(***************************************************************************)
(* The grid page: the settings panel together with the range buttons.     *)
(***************************************************************************)

\* Grid settings that an earlier visit stored.
StoredForGrid ==
    {EmptyStorage,
     [EmptyStorage EXCEPT ![KEY_GRID] =
         JsonText(Obj([sort |-> Str("price-desc"), cardStyle |-> Str("minimal"),
                       showDate |-> Bool(FALSE)]))]}

InitGrid ==
    /\ lsMode = "ok"
    /\ localStorage \in StoredForGrid
    /\ memoryStore = EmptyStorage
    /\ lastOp = NoOp
    /\ dataTheme = "" /\ darkClass = FALSE /\ dataMarket = ""
    /\ gridControls = TemplateControls
    /\ chartSettings = CHART_DEFAULTS
    /\ view = "grid"
    /\ reqs = <<>> /\ currentRequest = 0
    /\ shown = ServerRendered
    /\ loadingVisible = FALSE /\ interactive = TRUE /\ urlRange = ""
    /\ cards = NoCards /\ chart = NoChart /\ modal = NoModal
    /\ buttons = NoButtons /\ table = NoTable /\ sparklines = NoSparklines
    /\ boot = NoBoot

\* The user changes the sort order, the card style or a visibility toggle.
GridPanelChange ==
    \E k \in {"sort", "cardStyle", "showDate"} :
        \E v \in (CASE k = "sort" -> {Str("name"), Str("price-desc")}
                    [] k = "cardStyle" -> {Str("card"), Str("minimal")}
                    [] OTHER -> {Bool(TRUE), Bool(FALSE)}) :
            /\ updateGridSettings(k, v)
            /\ PanelFrame

NextGrid ==
    \/ GridViewInit \/ GridPanelChange
    \/ GridSetDataRange \/ GridRetry
    \/ GridResponse \/ GridFailure \/ GridAbortDelivered

SpecGrid == InitGrid /\ [][NextGrid]_vars

\* The value of a grid setting as persisted, or the value updateSettings takes
\* when none is.
persistedSelect(k) ==
    LET v == Get(GridView_getSettings(Store), k)
    IN IF Truthy(v) THEN v ELSE GridSelectDefault(k)

\* C11: whenever the response to a range change has re-rendered the grid, the
\* new cards are in the persisted sort order, have the persisted card style,
\* and hide exactly the parts whose persisted visibility toggle is off.
C11_RerenderFollowsSettings ==
    (lastOp.op = "response" /\ shown.kind = "rows") =>
        /\ shown.rows = sortCards(shown.rows, persistedSelect("sort"))
        /\ cards.style = persistedSelect("cardStyle").v
        /\ cards.hidden = {k \in GridCheckboxes :
                              Get(GridView_getSettings(Store), k) = Bool(FALSE)}



(***************************************************************************)
(* SpecFunctions: the pure functions of BW.Commodity, applied to inputs    *)
(* drawn from bounded sets.                                                *)
(***************************************************************************)

MaxSeries == 3

\* Observations: month ends, the day after a leap day, and prices that
\* include zero.
Points ==
    {[date |-> <<2023, 2, 28>>, price |-> 0],
     [date |-> <<2024, 1, 30>>, price |-> 4],
     [date |-> <<2024, 2, 1>>, price |-> 0],
     [date |-> <<2024, 2, 29>>, price |-> 8],
     [date |-> <<2024, 3, 1>>, price |-> 4],
     [date |-> <<2024, 3, 31>>, price |-> 8]}

\* The points of T in the order of their dates.
Ascending(T) ==
    CHOOSE seq \in [1..Cardinality(T) -> T] :
        \A i, j \in 1..Cardinality(T) :
            i < j => newDate(seq[i].date) < newDate(seq[j].date)

\* The date-ascending series of at most MaxSeries observations.
Series ==
    {Array("history", Ascending(T)) : T \in {U \in SUBSET Points : Cardinality(U) <= MaxSeries}}

FilterRanges == {"1W", "1M", "3M", "6M", "1Y"}
ChartRanges == FilterRanges \cup {"ALL"}

\* Where the browser runs: on or east of UTC (0), or west of it (1).
Shifts == {0, 1}

InitFunctions ==
    /\ lsMode = "ok"
    /\ localStorage = EmptyStorage
    /\ memoryStore = EmptyStorage
    /\ lastOp = NoOp
    /\ dataTheme = "" /\ darkClass = FALSE /\ dataMarket = ""
    /\ gridControls = NoProps
    /\ chartSettings = CHART_DEFAULTS
    /\ view = "grid" /\ reqs = <<>> /\ currentRequest = 0
    /\ shown = ServerRendered
    /\ loadingVisible = FALSE /\ interactive = TRUE /\ urlRange = ""
    /\ cards = NoCards /\ modal = NoModal
    /\ buttons = NoButtons /\ table = NoTable /\ sparklines = NoSparklines
    /\ boot = NoBoot
    /\ chart \in {[page |-> "script", shift |-> z] : z \in Shifts}

\* A call of a function that reads and writes nothing besides its arguments.
Applied(op, arg, ret) ==
    lastOp' = [op |-> op, arg |-> arg, ret |-> ret, threw |-> FALSE,
               ev |-> <<>>, user |-> FALSE]

PureFrame == UNCHANGED <<lsMode, localStorage, memoryStore, domVars, viewVars, otherVars>>

\* BW.Commodity.filterDataByRange(data, range)
FilterDataByRange ==
    \E data \in Series \cup {Null}, range \in ChartRanges :
        /\ Applied("filterDataByRange", [data |-> data, range |-> range],
                   filterDataByRange(data, range, chart.shift))
        /\ PureFrame


\* A JavaScript string whose characters matter is Str of the sequence of its
\* characters.
HexDigits ==
    {"0", "1", "2", "3", "4", "5", "6", "7", "8", "9",
     "a", "b", "c", "d", "e", "f", "A", "B", "C", "D", "E", "F"}

\* hex.replace('#', ''): the first '#' is removed.
replaceHash(chars) ==
    IF \E i \in 1..Len(chars) : chars[i] = "#"
    THEN LET i == CHOOSE k \in 1..Len(chars) :
                      chars[k] = "#" /\ \A j \in 1..(k - 1) : chars[j] # "#"
         IN SubSeq(chars, 1, i - 1) \o SubSeq(chars, i + 1, Len(chars))
    ELSE chars

\* String.prototype.trim
RECURSIVE trim(_)
trim(chars) ==
    IF chars = <<>> THEN chars
    ELSE IF chars[1] = " " THEN trim(Tail(chars))
    ELSE IF chars[Len(chars)] = " " THEN trim(SubSeq(chars, 1, Len(chars) - 1))
    ELSE chars

\* /^[0-9a-fA-F]{6}$/.test(h)
isSixHex(h) == Len(h) = 6 /\ \A i \in 1..6 : h[i] \in HexDigits

\* Math.max(0, Math.min(100, alphaPercent))
clampPercent(alphaPercent) ==
    IF alphaPercent > 100 THEN 100 ELSE IF alphaPercent < 0 THEN 0 ELSE alphaPercent

\* Math.round(p * 2.55) for an integer p of 0..100, in double arithmetic.  The
\* double 2.55 is 2^-49/10 below 2.55, so that the product of a p with
\* p * 2.55 = k + 1/2 is the double nearest to k + 1/2 - p * 2^-49/10: that is
\* k + 1/2 itself for 10, 30 and 70 (rounded to k + 1), and the double below it
\* for 50 and 90 (rounded to k).
roundTimes255(p) ==
    LET k == (p * 255) \div 100
        rest == (p * 255) % 100
    IN IF rest > 50 THEN k + 1
       ELSE IF rest < 50 THEN k
       ELSE IF p \in {50, 90} THEN k ELSE k + 1

\* a.toString(16).padStart(2, '0') for a of 0..255
LowerHex == <<"0", "1", "2", "3", "4", "5", "6", "7", "8", "9", "a", "b", "c", "d", "e", "f">>
toHex2(a) == <<LowerHex[(a \div 16) + 1], LowerHex[(a % 16) + 1]>>

\* !hex for a colour: null, undefined and '' are falsy.
isFalsyString(hex) == hex.t # "str" \/ hex.v = <<>>

\* BW.Commodity.hexWithAlpha
hexWithAlpha(hex, alphaPercent) ==
    IF isFalsyString(hex) THEN Null
    ELSE LET h == trim(replaceHash(hex.v))
             a == roundTimes255(clampPercent(alphaPercent))
             ahex == toHex2(a)
         IN IF ~isSixHex(h) THEN hex
            ELSE Str(<<"#">> \o h \o ahex)


\* The characters of a literal.
Red == <<"f", "f", "0", "0", "0", "0">>

\* Colours: six digits with and without '#', in upper case, with a blank
\* around them, with the '#' inside, and strings that are no six digits.
ColourInputs ==
    {Str(<<"#">> \o Red), Str(Red), Str(<<"#", "0", "F", "5", "4", "9", "9">>),
     Str(Red \o <<" ">>), Str(<<" ", "#">> \o Red), Str(<<"f", "f", "#", "0", "0", "0", "0">>),
     Str(<<"#", "#">> \o Red), Str(<<"#", "f", "f", "f">>), Str(<<"r", "e", "d">>),
     Str(<<"#", "g", "g", "0", "0", "0", "0">>), Str(<<"#">>), Str(<<" ">>),
     Str(<<>>), Null, Undefined}

AlphaInputs == {-5, 0, 10, 15, 50, 90, 100, 120}

\* BW.Commodity.hexWithAlpha(hex, alphaPercent)
HexWithAlpha ==
    \E hex \in ColourInputs, alphaPercent \in AlphaInputs :
        /\ Applied("hexWithAlpha", [hex |-> hex, alphaPercent |-> alphaPercent],
                   hexWithAlpha(hex, alphaPercent))
        /\ PureFrame

MaxData == 3

\* toNumber of BW.Utils: Number(v) if that is finite, else NaN (the values
\* of the model are numbers and strings that are not numerals).
toNumber(v) == IF v.t = "num" THEN v ELSE NaN

\* Number.isFinite
isFinite(n) == n.t = "num"

\* windowSum / period, kept as the quotient of the two integers.
Quotient(n, d) == [t |-> "quotient", n |-> n, d |-> d]

\* Math.max(0, n)
max0(n) == IF n > 0 THEN n ELSE 0

\* The loop of calculateMA from index i on (i counts from 1 here, so that the
\* first window ends at i = period).
RECURSIVE maLoop(_, _, _, _, _, _)
maLoop(nums, period, i, windowSum, validCount, out) ==
    IF i > Len(nums) THEN out
    ELSE LET val == nums[i]
         IN IF i <= period
            THEN LET sum == IF isFinite(val) THEN windowSum + val.v ELSE windowSum
                     cnt == IF isFinite(val) THEN validCount + 1 ELSE validCount
                 IN maLoop(nums, period, i + 1, sum, cnt,
                           [out EXCEPT ![i] = IF i = period /\ cnt = period
                                              THEN Quotient(sum, period) ELSE Null])
            ELSE LET prev == nums[i - period]
                     sum1 == IF isFinite(prev) THEN windowSum - prev.v ELSE windowSum
                     cnt1 == IF isFinite(prev) THEN validCount ELSE max0(validCount - 1)
                     sum == IF isFinite(val) THEN sum1 + val.v ELSE sum1
                     cnt == IF isFinite(val) THEN cnt1 + 1 ELSE cnt1
                 IN maLoop(nums, period, i + 1, sum, cnt,
                           [out EXCEPT ![i] = IF cnt = period
                                              THEN Quotient(sum, period) ELSE Null])

\* BW.Utils.calculateMA
calculateMA(data, period) ==
    IF data.t # "arr" \/ Len(data.v) = 0 \/ period <= 0 THEN Arr(<<>>)
    ELSE Arr(maLoop([i \in 1..Len(data.v) |-> toNumber(data.v[i])], period, 1, 0, 0,
                    [i \in 1..Len(data.v) |-> Null]))

\* Observations given to calculateMA: prices and a string that is no number.
MAValues == {Num(1), Num(2), Str("n/a")}
MAInputs ==
    {Arr(q) : q \in UNION {[1..n -> MAValues] : n \in 0..MaxData}} \cup {Null, Str("12")}
MAPeriods == {-1, 0, 1, 2, 3}

CalculateMA ==
    \E data \in MAInputs, period \in MAPeriods :
        /\ Applied("calculateMA", [data |-> data, period |-> period],
                   calculateMA(data, period))
        /\ PureFrame

NextFunctions == FilterDataByRange \/ HexWithAlpha

NextUtils == CalculateMA

SpecUtils == InitFunctions /\ [][NextUtils]_vars

SpecFunctions == InitFunctions /\ [][NextFunctions]_vars


\* The smaller of two numbers.
Least(a, b) == IF a < b THEN a ELSE b

\* The day that lies the offset of a range before a date: 7 days, or the same
\* day of the month 1, 3 or 6 months or a year earlier (the last day of that
\* month where it is shorter).
offsetBefore(ymd, range) ==
    LET back == CASE range = "1M" -> 1 [] range = "3M" -> 3 [] range = "6M" -> 6
                  [] range = "1Y" -> 12 [] OTHER -> 0
        y == ymd[1] + ((ymd[2] - back - 1) \div 12)
        m == ((ymd[2] - back - 1) % 12) + 1
    IN IF range = "1W" THEN newDate(ymd) - 7
       ELSE MakeDay(y, m, Least(ymd[3], DaysInMonth(y, m)))

\* C12: filterDataByRange(S, R), for a non-empty date-ascending series S and a
\* range R of 1W, 1M, 3M, 6M, 1Y, returns in their order exactly the elements
\* of S dated on or after the date of the last element less the offset of R.
C12_FilterKeepsWindow ==
    (/\ lastOp.op = "filterDataByRange"
     /\ lastOp.arg.range \in FilterRanges
     /\ lastOp.arg.data # Null
     /\ lastOp.arg.data.items # <<>>) =>
        LET S == lastOp.arg.data.items
            first == offsetBefore(S[Len(S)].date, lastOp.arg.range)
            inWindow(item) == newDate(item.date) >= first
        IN lastOp.ret.items = SelectSeq(S, inWindow)


\* C13: filterDataByRange(S, 'ALL') returns S itself, the same array and no
\* copy, for every S; and for every range an empty array and null are
\* returned as they were given.
C13_AllAndEmptyReturnInput ==
    (/\ lastOp.op = "filterDataByRange"
     /\ \/ lastOp.arg.range = "ALL"
        \/ lastOp.arg.data = Null
        \/ lastOp.arg.data.items = <<>>) =>
        lastOp.ret = lastOp.arg.data

C13_Witness ==
    /\ lastOp.op = "filterDataByRange"
    /\ lastOp.arg.range = "ALL"
    /\ lastOp.arg.data # Null
    /\ Len(lastOp.arg.data.items) = 3
    /\ lastOp.ret.ref = "history"


\* The number that two lower-case hex digits denote (-1 if they are none).
hexValue(pair) ==
    IF Len(pair) = 2 /\ \A i \in 1..2 : \E n \in 1..16 : LowerHex[n] = pair[i]
    THEN 16 * ((CHOOSE n \in 1..16 : LowerHex[n] = pair[1]) - 1)
         + (CHOOSE n \in 1..16 : LowerHex[n] = pair[2]) - 1
    ELSE -1

\* An alpha byte that is the percentage times 2.55, rounded: within 1/2 of it,
\* 00 for a percentage of 0 or less and ff for one of 100 or more.
isAlphaOf(pair, alphaPercent) ==
    LET byte == hexValue(pair)
        p == clampPercent(alphaPercent)
    IN /\ byte \in 0..255
       /\ 100 * byte - 255 * p \in -50..50
       /\ alphaPercent <= 0 => pair = <<"0", "0">>
       /\ alphaPercent >= 100 => pair = <<"f", "f">>

\* What hexWithAlpha is to return for a colour whose six digits are `digits`.
isWithAlpha(ret, digits, alphaPercent) ==
    /\ ret.t = "str"
    /\ Len(ret.v) = 9
    /\ SubSeq(ret.v, 1, 7) = <<"#">> \o digits
    /\ isAlphaOf(SubSeq(ret.v, 8, 9), alphaPercent)

\* C15 as stated: six hex digits, with or without a leading '#', get the alpha
\* byte appended; every other non-empty colour string is returned unchanged;
\* an empty or null colour gives null.
C15_OnlyPlainSixDigits ==
    lastOp.op = "hexWithAlpha" =>
        LET hex == lastOp.arg.hex
            ret == lastOp.ret
        IN IF isFalsyString(hex) THEN ret = Null
           ELSE IF isSixHex(hex.v) THEN isWithAlpha(ret, hex.v, lastOp.arg.alphaPercent)
           ELSE IF hex.v[1] = "#" /\ isSixHex(Tail(hex.v))
                THEN isWithAlpha(ret, Tail(hex.v), lastOp.arg.alphaPercent)
           ELSE ret = hex


(***************************************************************************)
(* SpecChart: the detail page after BW.Commodity.init, and the handlers of *)
(* its range, type and view buttons and of its chart settings.             *)
(***************************************************************************)

\* BW.Commodity after init(historyData): the fields as the script defines
\* them, fullHistoryData set, and the first chart drawn.  historyData keeps
\* the argument of init.
afterInit(historyData, shift) ==
    updateChart([page |-> "commodity", shift |-> shift, historyData |-> historyData,
                 fullHistoryData |-> historyData,
                 currentRange |-> "ALL", currentChartType |-> "line",
                 currentViewMode |-> "price",
                 priceChart |-> [labels |-> <<>>, data |-> <<>>, fill |-> FALSE]],
                CHART_DEFAULTS)

InitChart ==
    /\ lsMode = "ok"
    /\ localStorage = EmptyStorage
    /\ memoryStore = EmptyStorage
    /\ lastOp = NoOp
    /\ dataTheme = "" /\ darkClass = FALSE /\ dataMarket = ""
    /\ gridControls = NoProps
    /\ chartSettings = CHART_DEFAULTS
    /\ view = "grid" /\ reqs = <<>> /\ currentRequest = 0
    /\ shown = ServerRendered
    /\ loadingVisible = FALSE /\ interactive = TRUE /\ urlRange = ""
    /\ cards = NoCards /\ modal = NoModal
    /\ buttons = NoButtons /\ table = NoTable /\ sparklines = NoSparklines
    /\ boot = NoBoot
    /\ chart \in {afterInit(h, z) : h \in Series, z \in Shifts}

\* The frame of a button of the chart.
ButtonFrame == UNCHANGED <<lsMode, localStorage, memoryStore, domVars, viewVars, modal, restVars>>

\* BW.Commodity.setTimeRange
CommoditySetTimeRange ==
    \E range \in ChartRanges :
        /\ chart' = updateChart([chart EXCEPT !.currentRange = range], chartSettings)
        /\ Applied("Commodity.setTimeRange", Str(range), Undefined)
        /\ ButtonFrame

\* BW.Commodity.setChartType
CommoditySetChartType ==
    \E type \in {"line", "area"} :
        /\ chart' = updateChart([chart EXCEPT !.currentChartType = type], chartSettings)
        /\ Applied("Commodity.setChartType", Str(type), Undefined)
        /\ ButtonFrame

\* BW.Commodity.setViewMode
CommoditySetViewMode ==
    \E mode \in {"price", "percent"} :
        /\ chart' = updateChart([chart EXCEPT !.currentViewMode = mode], chartSettings)
        /\ Applied("Commodity.setViewMode", Str(mode), Undefined)
        /\ ButtonFrame

NextChart ==
    \/ CommoditySetTimeRange \/ CommoditySetChartType \/ CommoditySetViewMode
    \/ UpdateChartSetting

SpecChart == InitChart /\ [][NextChart]_vars


\* The series that the chart is to show: the history within the current range.
filteredNow == filterDataByRange(chart.fullHistoryData, chart.currentRange, chart.shift).items

\* C14: after any sequence of setTimeRange, setChartType, setViewMode and
\* chart-setting updates, fullHistoryData is the history that init was given,
\* and the chart shows the points of filterDataByRange(fullHistoryData,
\* currentRange), with their prices in price view; under 'ALL' these are all
\* points of the history.
C14_ChartShowsFilteredHistory ==
    chart.page = "commodity" =>
        /\ chart.fullHistoryData = chart.historyData
        /\ chart.priceChart.labels = [i \in 1..Len(filteredNow) |-> filteredNow[i].date]
        /\ Len(chart.priceChart.data) = Len(filteredNow)
        /\ chart.currentViewMode = "price" =>
              chart.priceChart.data = [i \in 1..Len(filteredNow) |-> Num(filteredNow[i].price)]
        /\ chart.currentRange = "ALL" =>
              chart.priceChart.labels =
                  [i \in 1..Len(chart.historyData.items) |-> chart.historyData.items[i].date]

\* A narrow range has cut the chart down.
C14_Witness ==
    /\ chart.page = "commodity"
    /\ lastOp.op = "Commodity.setViewMode"
    /\ chart.currentRange = "1W"
    /\ Len(chart.historyData.items) = 3
    /\ Len(chart.priceChart.labels) = 1

\* C16: in percent view the series that updateChart draws starts with 0 for
\* every non-empty filtered series, and its element i is
\* (price_i - price_0) / price_0 * 100.
C16_PercentFromFirst ==
    (/\ chart.page = "commodity"
     /\ chart.currentViewMode = "percent"
     /\ Len(chart.priceChart.data) > 0) =>
        /\ chart.priceChart.data[1] = Num(0)
        /\ \A i \in 1..Len(chart.priceChart.data) :
              /\ chart.priceChart.data[i].t = "num"
              /\ chart.priceChart.data[i].v * filteredNow[1].price
                    = (filteredNow[i].price - filteredNow[1].price) * 100


(***************************************************************************)
(* SpecTheme: the theme and market-theme setters of BW.Theme, BW.Base and  *)
(* BW.SettingsModal, called in any order after the page has initialised.   *)
(***************************************************************************)

\* A handler that may change the attributes of <html>: the outcome for the
\* stores, and the attributes after it.
Styled(r, theme, dark, market) == [r |-> r, theme |-> theme, dark |-> dark, market |-> market]

\* BW.Theme.applyTheme
Theme_applyTheme(st, theme, dom) ==
    IF ~Truthy(theme) THEN Styled(Outcome(st, <<>>, Undefined), dom.theme, dom.dark, dom.market)
    ELSE Styled(setTheme(st, theme), theme.v, isDarkThemeName(theme.v), dom.market)

\* BW.Theme.applyMarketTheme
Theme_applyMarketTheme(st, theme, dom) ==
    IF ~Truthy(theme) THEN Styled(Outcome(st, <<>>, Undefined), dom.theme, dom.dark, dom.market)
    ELSE Styled(setMarketTheme(st, theme), dom.theme, dom.dark, theme.v)

\* BW.Base's normalizeTheme on an argument: the name if it is a known theme.
normalizeName(t) == IF Truthy(t) /\ t.t = "str" /\ t.v \in AllowedThemes THEN t ELSE Null

\* BW.Base.setTheme
Base_setTheme(st, theme, dom) ==
    LET t == normalizeName(theme)
    IN IF ~Truthy(t) THEN Styled(Outcome(st, <<>>, Undefined), dom.theme, dom.dark, dom.market)
       ELSE Styled(Outcome(safeSet(st, KEY_THEME, t.v), <<>>, Undefined),
                   t.v, isDarkThemeName(t.v), dom.market)

\* BW.Base.setMarketTheme
Base_setMarketTheme(st, theme, dom) ==
    IF ~Truthy(theme) THEN Styled(Outcome(st, <<>>, Undefined), dom.theme, dom.dark, dom.market)
    ELSE Styled(Outcome(safeSet(st, KEY_MARKET_THEME, theme.v), <<>>, Undefined),
                dom.theme, dom.dark, theme.v)

\* String(mode) as localStorage.setItem stores it
toStored(mode) == IF mode.t = "str" THEN mode.v ELSE mode.t

\* BW.SettingsModal.setTheme: setItem in a try, then applyTheme from storage
SettingsModal_setTheme(st, mode, dom) ==
    LET st2 == safeSet(st, KEY_THEME, toStored(mode))
    IN Styled(Outcome(st2, <<>>, Undefined), SettingsModal_theme(st2),
              isDarkThemeName(SettingsModal_theme(st2)), dom.market)

\* Theme names given to the setters: known ones, an unknown one, '' and null.
ThemeNames == {Str("light"), Str("dark"), Str("bloomberg"), Str("solarized"), Str(""), Null}
MarketNames == {Str("western"), Str("asian"), Str(""), Null}

Dom == [theme |-> dataTheme, dark |-> darkClass, market |-> dataMarket]

\* The page after BW.Theme.init on a first or a later visit.
InitTheme ==
    /\ lsMode \in LsModes
    /\ \E prefersDark \in BOOLEAN, stored \in {NoItem, Text("dark"), Text("bloomberg")} :
          LET st0 == [ls |-> IF lsMode = "missing" THEN EmptyStorage
                             ELSE [EmptyStorage EXCEPT ![KEY_THEME] = stored],
                      mem |-> EmptyStorage]
              theme == Theme_initialTheme(st0, prefersDark)
              r1 == setTheme(st0, Str(theme))
              market == Theme_initialMarket(r1.st)
              r2 == setMarketTheme(r1.st, Str(market))
          IN /\ localStorage = r2.st.ls
             /\ memoryStore = r2.st.mem
             /\ dataTheme = theme
             /\ darkClass = isDarkThemeName(theme)
             /\ dataMarket = market
    /\ lastOp = NoOp
    /\ gridControls = NoProps
    /\ chartSettings = CHART_DEFAULTS
    /\ view = "grid" /\ reqs = <<>> /\ currentRequest = 0
    /\ shown = ServerRendered
    /\ loadingVisible = FALSE /\ interactive = TRUE /\ urlRange = ""
    /\ cards = NoCards /\ chart = NoChart /\ modal = NoModal
    /\ buttons = NoButtons /\ table = NoTable /\ sparklines = NoSparklines
    /\ boot = NoBoot

\* The step of a setter that ended as `s`.
Restyled(op, arg, s) ==
    /\ dataTheme' = s.theme
    /\ darkClass' = s.dark
    /\ dataMarket' = s.market
    /\ Ran(op, arg, s.r, TRUE)

StyleFrame == UNCHANGED <<lsMode, gridControls, chartSettings, cards, viewVars, otherVars>>

ApplyTheme ==
    \E theme \in ThemeNames :
        /\ Restyled("Theme.applyTheme", theme, Theme_applyTheme(Store, theme, Dom))
        /\ StyleFrame

ApplyMarketTheme ==
    \E theme \in MarketNames :
        /\ Restyled("Theme.applyMarketTheme", theme, Theme_applyMarketTheme(Store, theme, Dom))
        /\ StyleFrame

BaseSetTheme ==
    \E theme \in ThemeNames :
        /\ Restyled("Base.setTheme", theme, Base_setTheme(Store, theme, Dom))
        /\ StyleFrame

BaseSetMarketTheme ==
    \E theme \in MarketNames :
        /\ Restyled("Base.setMarketTheme", theme, Base_setMarketTheme(Store, theme, Dom))
        /\ StyleFrame

ModalSetTheme ==
    \E mode \in ThemeNames :
        /\ Restyled("SettingsModal.setTheme", mode, SettingsModal_setTheme(Store, mode, Dom))
        /\ StyleFrame

NextTheme ==
    \/ ApplyTheme \/ ApplyMarketTheme
    \/ BaseSetTheme \/ BaseSetMarketTheme
    \/ ModalSetTheme

SpecTheme == InitTheme /\ [][NextTheme]_vars

ThemeSetters == {"Theme.applyTheme", "Base.setTheme", "SettingsModal.setTheme"}
MarketSetters == {"Theme.applyMarketTheme", "Base.setMarketTheme"}

\* C17: in every state that a theme or market-theme change has led to, the
\* value stored under 'theme' is the data-theme of the root and the value
\* stored under 'market-theme' is its data-market.
C17_StoredIsApplied ==
    lastOp.op \in ThemeSetters \cup MarketSetters =>
        /\ localStorage[KEY_THEME] = Text(dataTheme)
        /\ localStorage[KEY_MARKET_THEME] = Text(dataMarket)

\* Whether a setter takes a name: BW.Base.setTheme takes the known themes
\* only.
isApplied(op, name) ==
    /\ Truthy(name)
    /\ op = "Base.setTheme" => name.v \in AllowedThemes

\* C18: each theme change through BW.Theme.applyTheme, BW.Base.setTheme or
\* BW.SettingsModal.setTheme leaves data-theme at the name it applied, and
\* the class 'dark' on the root exactly if that name is dark, mono-dark or
\* bloomberg; a call with an empty or null theme changes neither.
C18_LastThemeShown ==
    [][lastOp'.op \in ThemeSetters =>
          IF isApplied(lastOp'.op, lastOp'.arg)
          THEN dataTheme' = lastOp'.arg.v /\ darkClass' = isDarkThemeName(lastOp'.arg.v)
          ELSE dataTheme' = dataTheme /\ darkClass' = darkClass]_vars


(***************************************************************************)
(* SpecModal: the settings modal under toggle calls, key presses, the      *)
(* focus timer of an opening, and the user moving the focus.               *)
(***************************************************************************)

MaxTimers == 2

\* Elements that can hold the focus: three of the page, two of the modal.
PageElements == {"settings-button", "body", "main-link"}
ModalElements == {"first-focusable", "last-focusable"}

\* The modal as the page delivers it: closed.
ClosedModal(active, focusable) ==
    [page |-> "modal",
     focusable |-> focusable,        \* the modal holds focusable elements
     opacity0 |-> TRUE,              \* modal.classList.contains('opacity-0')
     ariaHidden |-> TRUE,            \* the modal has aria-hidden="true"
     mainAriaHidden |-> FALSE,       \* the main content has aria-hidden="true"
     overflow |-> "",                \* document.body.style.overflow
     ariaExpanded |-> "false",       \* of the trigger button
     listening |-> FALSE,            \* _boundHandleKeydown is a keydown listener
     previouslyFocused |-> "null",
     activeElement |-> active,
     timers |-> 0,                   \* pending setTimeout callbacks of openings
     openedFrom |-> "null"]          \* the element that had the focus at the last opening

\* toggle that flips the classes of the modal and nothing else.
toggle_ClassesOnly(m) == [m EXCEPT !.opacity0 = ~m.opacity0]

\* toggle that closes without returning the focus.
toggle_FocusStays(m) ==
    IF m.opacity0
    THEN [m EXCEPT !.previouslyFocused = m.activeElement,
                   !.opacity0 = FALSE, !.ariaHidden = FALSE, !.overflow = "hidden",
                   !.mainAriaHidden = TRUE, !.ariaExpanded = "true",
                   !.timers = m.timers + 1, !.listening = TRUE]
    ELSE [m EXCEPT !.opacity0 = TRUE, !.ariaHidden = TRUE, !.overflow = "",
                   !.mainAriaHidden = FALSE, !.ariaExpanded = "false",
                   !.listening = FALSE]

\* BW.SettingsModal.toggle
toggle(m) ==
    IF m.opacity0
    THEN [m EXCEPT !.previouslyFocused = m.activeElement,
                   !.opacity0 = FALSE, !.ariaHidden = FALSE, !.overflow = "hidden",
                   !.mainAriaHidden = TRUE, !.ariaExpanded = "true",
                   !.timers = m.timers + 1, !.listening = TRUE]
    ELSE [m EXCEPT !.opacity0 = TRUE, !.ariaHidden = TRUE, !.overflow = "",
                   !.mainAriaHidden = FALSE, !.ariaExpanded = "false",
                   !.listening = FALSE,
                   !.activeElement = IF m.previouslyFocused # "null"
                                     THEN m.previouslyFocused ELSE m.activeElement]

\* BW.SettingsModal.handleKeydown: Escape closes; Tab on the last element and
\* Shift+Tab on the first wrap around, Tab in a modal without focusable
\* elements puts the focus on the modal, any other Tab is left to the browser,
\* which moves the focus to the next or the previous element.
handleKeydown(m, key, shiftKey) ==
    IF m.opacity0 THEN m
    ELSE IF key = "Escape" THEN toggle(m)
    ELSE IF ~m.focusable THEN [m EXCEPT !.activeElement = "settings-modal"]
    ELSE IF shiftKey /\ m.activeElement = "first-focusable"
         THEN [m EXCEPT !.activeElement = "last-focusable"]
    ELSE IF ~shiftKey /\ m.activeElement = "last-focusable"
         THEN [m EXCEPT !.activeElement = "first-focusable"]
    ELSE [m EXCEPT !.activeElement =
             IF m.activeElement \in ModalElements
             THEN (IF shiftKey THEN "first-focusable" ELSE "last-focusable")
             ELSE "first-focusable"]

InitModal ==
    /\ lsMode = "ok"
    /\ localStorage = EmptyStorage
    /\ memoryStore = EmptyStorage
    /\ lastOp = NoOp
    /\ dataTheme = "light" /\ darkClass = FALSE /\ dataMarket = "western"
    /\ gridControls = NoProps
    /\ chartSettings = CHART_DEFAULTS
    /\ view = "grid" /\ reqs = <<>> /\ currentRequest = 0
    /\ shown = ServerRendered
    /\ loadingVisible = FALSE /\ interactive = TRUE /\ urlRange = ""
    /\ cards = NoCards /\ chart = NoChart
    /\ modal \in {ClosedModal(active, focusable) :
                    active \in PageElements, focusable \in BOOLEAN}
    /\ buttons = NoButtons /\ table = NoTable /\ sparklines = NoSparklines
    /\ boot = NoBoot

ModalFrame == UNCHANGED <<lsMode, localStorage, memoryStore, domVars, viewVars, chart, restVars>>

\* The element that has the focus as an opening begins.
openedFromAfter(m) == IF m.opacity0 THEN m.activeElement ELSE m.openedFrom

\* toggleSettings(): the settings button, the close button, the backdrop.
ModalToggle ==
    /\ modal.opacity0 => modal.timers < MaxTimers
    /\ modal' = [toggle(modal) EXCEPT !.openedFrom = openedFromAfter(modal)]
    /\ Applied("SettingsModal.toggle", Null, Undefined)
    /\ ModalFrame

\* A key press while the keydown listener is registered.
ModalKeydown ==
    \E key \in {"Escape", "Tab"}, shiftKey \in BOOLEAN :
        /\ modal.listening
        /\ modal' = handleKeydown(modal, key, shiftKey)
        /\ Applied("SettingsModal.handleKeydown", Str(key), Undefined)
        /\ ModalFrame

\* The timer of an opening fires: the first focusable element of the modal
\* gets the focus, or the modal itself when it holds none.
ModalFocusTimer ==
    /\ modal.timers > 0
    /\ modal' = [modal EXCEPT !.timers = modal.timers - 1,
                              !.activeElement = IF modal.focusable
                                                THEN "first-focusable"
                                                ELSE "settings-modal"]
    /\ Applied("focus timer", Null, Undefined)
    /\ ModalFrame

\* The user moves the focus: within the page while the modal is closed,
\* within the modal while it is open.
UserFocus ==
    \E el \in (IF modal.opacity0 THEN PageElements ELSE ModalElements) :
        /\ modal.opacity0 \/ modal.focusable
        /\ modal' = [modal EXCEPT !.activeElement = el]
        /\ Applied("focus", Str(el), Undefined)
        /\ ModalFrame

NextModal == ModalToggle \/ ModalKeydown \/ ModalFocusTimer \/ UserFocus

SpecModal == InitModal /\ [][NextModal]_vars

FullyOpen ==
    /\ ~modal.opacity0 /\ ~modal.ariaHidden /\ modal.mainAriaHidden
    /\ modal.overflow = "hidden" /\ modal.ariaExpanded = "true" /\ modal.listening

FullyClosed ==
    /\ modal.opacity0 /\ modal.ariaHidden /\ ~modal.mainAriaHidden
    /\ modal.overflow = "" /\ modal.ariaExpanded = "false" /\ ~modal.listening

InsideModal(el) == el \in ModalElements \cup {"settings-modal"}

keydownStep(key) ==
    /\ lastOp'.op = "SettingsModal.handleKeydown"
    /\ lastOp'.arg = Str(key)

\* C21: while the modal is open the focus cannot leave it (Tab on the last
\* focusable element leads to the first, Shift+Tab on the first to the last,
\* Tab in a modal without focusable elements leaves the focus on the modal,
\* Escape closes the modal); while the modal is closed no key has an effect
\* and no step moves the focus into the modal.
C21_FocusTrap ==
    [][/\ (~modal.opacity0 /\ keydownStep("Escape")) => modal'.opacity0
       /\ (~modal.opacity0 /\ keydownStep("Tab") /\ InsideModal(modal.activeElement))
              => InsideModal(modal'.activeElement)
       /\ (~modal.opacity0 /\ keydownStep("Tab") /\ ~modal.focusable)
              => modal'.activeElement = "settings-modal"
       /\ (modal.opacity0 /\ modal'.opacity0 /\ ~InsideModal(modal.activeElement))
              => ~InsideModal(modal'.activeElement)]_vars

(***************************************************************************)
(* SpecButtons: the button groups of the settings modal and of the grid    *)
(* view under their update functions.                                      *)
(***************************************************************************)

ThemeButtons == {"light", "dark", "mono-light", "mono-dark", "bloomberg", "ft"}
MarketButtons == {"western", "asian", "monochrome"}
ViewButtons == {"grid", "compact"}
RangeButtons == {"1W", "1M", "3M", "6M", "1Y", "ALL"}

\* A button as the template delivers it, and a button left active by an
\* earlier page state.
Unmarked == [dataActive |-> FALSE, ariaPressed |-> "none", ariaChecked |-> "none",
             tabindex |-> "none", role |-> "none", className |-> "template"]
StaleActive == [dataActive |-> TRUE, ariaPressed |-> "true", ariaChecked |-> "true",
                tabindex |-> "0", role |-> "none", className |-> "active"]

\* The loop shared by updateThemeButtons, updateMarketButtons and
\* SettingsModal.updateUI: every existing button of the list is marked.
markPressed(marks, active) ==
    [b \in DOMAIN marks |->
        IF b = active
        THEN [marks[b] EXCEPT !.dataActive = TRUE, !.ariaPressed = "true"]
        ELSE [marks[b] EXCEPT !.dataActive = FALSE, !.ariaPressed = "false"]]

\* updateRangeButtons that marks the active button and leaves the others.
updateRangeButtons_ActiveOnly(marks, activeRange) ==
    [b \in DOMAIN marks |->
        IF b = activeRange
        THEN [marks[b] EXCEPT !.role = "radio", !.ariaChecked = "true",
                              !.tabindex = "0", !.className = "active"]
        ELSE marks[b]]

\* BW.GridView.updateRangeButtons
GridView_updateRangeButtons(marks, activeRange) ==
    [b \in DOMAIN marks |->
        IF b = activeRange
        THEN [marks[b] EXCEPT !.role = "radio", !.ariaChecked = "true",
                              !.tabindex = "0", !.className = "active"]
        ELSE [marks[b] EXCEPT !.role = "radio", !.ariaChecked = "false",
                              !.tabindex = "-1", !.className = "inactive"]]

\* BW.SettingsModal.updateUI: the three groups follow the stored settings.
SettingsModal_updateUI(st, bt) ==
    [bt EXCEPT !.theme = markPressed(bt.theme, getTheme(st).s),
               !.market = markPressed(bt.market, getMarketTheme(st).s),
               !.view = markPressed(bt.view, getViewMode(st).s),
               !.last = [bt.last EXCEPT !.theme = getTheme(st).s,
                                        !.market = getMarketTheme(st).s,
                                        !.view = getViewMode(st).s]]

\* The groups as pages hold them: all buttons, or some of them only.
ButtonPages ==
    {[theme |-> t, market |-> m, view |-> ViewButtons, range |-> r] :
        t \in {ThemeButtons, {"light", "dark", "bloomberg"}},
        m \in {MarketButtons, {"western", "asian"}},
        r \in {RangeButtons, {"1W", "ALL"}}}

StoredForButtons ==
    {EmptyStorage,
     [EmptyStorage EXCEPT ![KEY_THEME] = Text("ft"),
                          ![KEY_MARKET_THEME] = Text("monochrome"),
                          ![KEY_VIEW_MODE] = Text("compact")],
     [EmptyStorage EXCEPT ![KEY_THEME] = Text("solarized"),
                          ![KEY_MARKET_THEME] = Text("asian"),
                          ![KEY_VIEW_MODE] = Text("list")]}

InitButtons ==
    /\ lsMode = "ok"
    /\ localStorage \in StoredForButtons
    /\ memoryStore = EmptyStorage
    /\ lastOp = NoOp
    /\ dataTheme = "light" /\ darkClass = FALSE /\ dataMarket = "western"
    /\ gridControls = NoProps
    /\ chartSettings = CHART_DEFAULTS
    /\ view = "grid" /\ reqs = <<>> /\ currentRequest = 0
    /\ shown = ServerRendered
    /\ loadingVisible = FALSE /\ interactive = TRUE /\ urlRange = ""
    /\ cards = NoCards /\ chart = NoChart /\ modal = NoModal
    /\ table = NoTable /\ sparklines = NoSparklines /\ boot = NoBoot
    /\ \E p \in ButtonPages, first \in {Unmarked, StaleActive} :
          buttons = [page |-> "buttons",
                     theme |-> [b \in p.theme |-> IF b = "light" THEN first ELSE Unmarked],
                     market |-> [b \in p.market |-> IF b = "western" THEN first ELSE Unmarked],
                     view |-> [b \in p.view |-> IF b = "grid" THEN first ELSE Unmarked],
                     range |-> [b \in p.range |-> IF b = "1W" THEN first ELSE Unmarked],
                     last |-> [theme |-> "none", market |-> "none",
                               view |-> "none", range |-> "none"]]

ButtonsFrame ==
    UNCHANGED <<lsMode, localStorage, memoryStore, domVars, viewVars, chart, modal,
                table, sparklines, boot>>

\* updateThemeButtons(activeTheme) of BW.Theme
UpdateThemeButtons ==
    \E v \in ThemeButtons \cup {"solarized"} :
        /\ buttons' = [buttons EXCEPT !.theme = markPressed(buttons.theme, v),
                                      !.last.theme = v]
        /\ Applied("updateThemeButtons", Str(v), Undefined)
        /\ ButtonsFrame

\* updateMarketButtons(activeMarket) of BW.Theme
UpdateMarketButtons ==
    \E v \in MarketButtons \cup {"mono"} :
        /\ buttons' = [buttons EXCEPT !.market = markPressed(buttons.market, v),
                                      !.last.market = v]
        /\ Applied("updateMarketButtons", Str(v), Undefined)
        /\ ButtonsFrame

UpdateUI ==
    /\ buttons' = SettingsModal_updateUI(Store, buttons)
    /\ Applied("SettingsModal.updateUI", Null, Undefined)
    /\ ButtonsFrame

UpdateRangeButtons ==
    \E v \in RangeButtons \cup {"2Y"} :
        /\ buttons' = [buttons EXCEPT
                          !.range = GridView_updateRangeButtons(buttons.range, v),
                          !.last.range = v]
        /\ Applied("GridView.updateRangeButtons", Str(v), Undefined)
        /\ ButtonsFrame

NextButtons == UpdateThemeButtons \/ UpdateMarketButtons \/ UpdateUI \/ UpdateRangeButtons

SpecButtons == InitButtons /\ [][NextButtons]_vars

pressedActive(m) == m.dataActive /\ m.ariaPressed = "true"
pressedInactive(m) == ~m.dataActive /\ m.ariaPressed = "false"
rangeActive(m) == m.ariaChecked = "true" /\ m.tabindex = "0"
rangeInactive(m) == m.ariaChecked = "false" /\ m.tabindex = "-1"

\* The buttons of marks follow v: the one named v is active, the others are
\* inactive, and when v names a button of the group exactly one is active.
follows(marks, v, active(_), inactive(_)) ==
    /\ \A b \in DOMAIN marks :
          /\ active(marks[b]) <=> b = v
          /\ b # v => inactive(marks[b])
    /\ v \in DOMAIN marks => Cardinality({b \in DOMAIN marks : active(marks[b])}) = 1

\* C22: once the update function of a group has run, the button named by
\* the last value carries the active marking and every other existing button
\* of the group the inactive one; with a value that names a button of the
\* group exactly one button of the group is active.
C22_OneActivePerGroup ==
    /\ buttons.last.theme # "none" =>
          follows(buttons.theme, buttons.last.theme, pressedActive, pressedInactive)
    /\ buttons.last.market # "none" =>
          follows(buttons.market, buttons.last.market, pressedActive, pressedInactive)
    /\ buttons.last.view # "none" =>
          follows(buttons.view, buttons.last.view, pressedActive, pressedInactive)
    /\ buttons.last.range # "none" =>
          follows(buttons.range, buttons.last.range, rangeActive, rangeInactive)

C22_Witness ==
    /\ lastOp.op = "GridView.updateRangeButtons"
    /\ lastOp.arg = Str("ALL")
    /\ buttons.last.theme = "ft"
    /\ DOMAIN buttons.range = {"1W", "ALL"}
    /\ rangeInactive(buttons.range["1W"])
    /\ rangeActive(buttons.range["ALL"])

(***************************************************************************)
(* SpecBoot: the theme of a page load.  BW.Base.initTheme runs as the      *)
(* script in <head> loads, BW.Theme.init on DOMContentLoaded.              *)
(***************************************************************************)

\* The theme BW.Theme.init settles on when BW.Settings is not loaded: both
\* reads go to localStorage through safeGet.
Theme_initialThemeBare(st, prefersDark) ==
    LET theme == IF RawTruthy(safeGet(st, KEY_THEME)) THEN safeGet(st, KEY_THEME).s
                 ELSE "light"
    IN IF theme = "light" /\ prefersDark /\ ~RawTruthy(safeGet(st, KEY_THEME))
       THEN "dark" ELSE theme

\* BW.Theme.init up to applyTheme: the theme it applies and what applyTheme
\* stores, through BW.Settings.setTheme or through safeSet.
Theme_init(st, prefersDark, settingsLoaded) ==
    IF settingsLoaded
    THEN LET theme == Theme_initialTheme(st, prefersDark)
         IN [theme |-> theme, r |-> setTheme(st, Str(theme))]
    ELSE LET theme == Theme_initialThemeBare(st, prefersDark)
         IN [theme |-> theme, r |-> Outcome(safeSet(st, KEY_THEME, theme), <<>>, Undefined)]

SavedThemes == {NoItem, Text("light"), Text("dark"), Text("ft"), Text("solarized"), Text("")}

InitBoot ==
    /\ lsMode \in {"ok", "setThrows"}
    /\ \E saved \in SavedThemes, prefersDark \in BOOLEAN, settingsLoaded \in BOOLEAN :
          /\ localStorage = [EmptyStorage EXCEPT ![KEY_THEME] = saved]
          /\ boot = [page |-> "loading", saved |-> saved, prefersDark |-> prefersDark,
                     settingsLoaded |-> settingsLoaded]
    /\ memoryStore = EmptyStorage
    /\ lastOp = NoOp
    /\ dataTheme = "" /\ darkClass = FALSE /\ dataMarket = ""
    /\ gridControls = NoProps
    /\ chartSettings = CHART_DEFAULTS
    /\ view = "grid" /\ reqs = <<>> /\ currentRequest = 0
    /\ shown = ServerRendered
    /\ loadingVisible = FALSE /\ interactive = TRUE /\ urlRange = ""
    /\ cards = NoCards /\ chart = NoChart /\ modal = NoModal
    /\ buttons = NoButtons /\ table = NoTable /\ sparklines = NoSparklines

BootFrame ==
    UNCHANGED <<lsMode, dataMarket, gridControls, chartSettings, cards, viewVars, chart,
                modal, buttons, table, sparklines>>

\* BW.Base.initTheme
BootBaseInitTheme ==
    /\ boot.page = "loading"
    /\ dataTheme' = detectInitialTheme(Store, boot.prefersDark)
    /\ darkClass' = isDarkThemeName(dataTheme')
    /\ boot' = [boot EXCEPT !.page = "head done"]
    /\ Read("Base.initTheme", Undefined)
    /\ BootFrame

\* DOMContentLoaded: BW.Theme.init
BootThemeInit ==
    /\ boot.page = "head done"
    /\ LET i == Theme_init(Store, boot.prefersDark, boot.settingsLoaded)
       IN /\ dataTheme' = i.theme
          /\ darkClass' = isDarkThemeName(i.theme)
          /\ Ran("Theme.init", Null, i.r, FALSE)
    /\ boot' = [boot EXCEPT !.page = "ready"]
    /\ BootFrame

NextBoot == BootBaseInitTheme \/ BootThemeInit

SpecBoot == InitBoot /\ [][NextBoot]_vars

\* C23: once the page is initialised the applied theme is 'dark' when no
\* theme was saved and the system prefers dark, and the saved theme when one
\* was saved, with BW.Settings loaded or not.
C23_InitialTheme ==
    boot.page = "ready" =>
        /\ (boot.saved = NoItem /\ boot.prefersDark) => dataTheme = "dark"
        /\ boot.saved # NoItem => dataTheme = boot.saved.s

RECURSIVE sumOf(_, _, _)
sumOf(q, from, to) == IF from > to THEN 0 ELSE q[from].v + sumOf(q, from + 1, to)

\* The mean of the period values of data that end at position i, null when
\* the window is not complete or holds a value that is no number.
meanAt(data, period, i) ==
    IF i >= period /\ \A j \in (i - period + 1)..i : data[j].t = "num"
    THEN Quotient(sumOf(data, i - period + 1, i), period)
    ELSE Null

\* C24: calculateMA(data, period) is as long as data and holds at each
\* position the mean of the period values ending there, null where that
\* window is incomplete or not all numeric; it is [] for empty and non-array
\* data and for period <= 0.
C24_MovingAverage ==
    lastOp.op = "calculateMA" =>
        LET data == lastOp.arg.data
            period == lastOp.arg.period
        IN IF data.t # "arr" \/ data.v = <<>> \/ period <= 0
           THEN lastOp.ret = Arr(<<>>)
           ELSE /\ Len(lastOp.ret.v) = Len(data.v)
                /\ \A i \in 1..Len(data.v) : lastOp.ret.v[i] = meanAt(data.v, period, i)

(***************************************************************************)
(* SpecSort: sortTable on the rows BW.CompactTable.updateTableData builds. *)
(***************************************************************************)

\* Records of /api/commodities with the fields the columns show.
TableRecords ==
    {[id |-> "gold", name |-> "Gold", price |-> 5, change |-> 3,
      change_percent |-> 2, date |-> "2024-03-01"],
     [id |-> "wheat", name |-> "Wheat", price |-> 2, change |-> -1,
      change_percent |-> -4, date |-> "2024-01-30"],
     [id |-> "brent_oil", name |-> "Brent", price |-> 7, change |-> 0,
      change_percent |-> 0, date |-> "2024-02-29"]}

\* The lists of distinct records.
TableLists ==
    {l \in UNION {[1..n -> TableRecords] : n \in 0..Cardinality(TableRecords)} :
        \A i, j \in DOMAIN l : i # j => l[i] # l[j]}

\* Absent attribute of an element.
NoAttr == [t |-> "undefined", v |-> "undefined"]

\* The <tr> updateTableData builds, by the elements sortTable selects:
\* .commodity-name (text), .price-value (data-raw), .chg-cell and .pct-cell
\* (which carry no data-value: it is on the <div> inside them),
\* .updated-cell (data-date).
tableRow(commodity) ==
    [id |-> commodity.id,
     commodityName |-> Str(commodity.name),
     priceRaw |-> Num(commodity.price),
     chgCellValue |-> NoAttr,
     chgInnerValue |-> Num(commodity.change),
     pctCellValue |-> NoAttr,
     pctInnerValue |-> Num(commodity.change_percent),
     updatedDate |-> Str(commodity.date)]

\* The order localeCompare gives the strings of the model.
Collation == <<"", "2024-01-30", "2024-02-29", "2024-03-01", "Brent", "Gold", "Wheat">>
collationRank(str) == CHOOSE i \in 1..Len(Collation) : Collation[i] = str
localeCompare(a, b) == collationRank(a) - collationRank(b)

\* parseFloat(attr || 0) for the attributes of the model
numberOr0(attr) == IF attr.t = "num" THEN attr.v ELSE 0
\* attr || ''
stringOrEmpty(attr) == IF attr.t = "str" THEN attr.v ELSE ""

KnownColumns == {"name", "price", "change", "pct", "date"}

\* The comparator of sortTable
compareRows(column, direction, a, b) ==
    LET cmp == CASE column = "name" ->
                        localeCompare(stringOrEmpty(a.commodityName),
                                      stringOrEmpty(b.commodityName))
                 [] column = "price" -> numberOr0(a.priceRaw) - numberOr0(b.priceRaw)
                 [] column = "change" ->
                        numberOr0(a.chgCellValue) - numberOr0(b.chgCellValue)
                 [] column = "pct" ->
                        numberOr0(a.pctCellValue) - numberOr0(b.pctCellValue)
                 [] column = "date" ->
                        localeCompare(stringOrEmpty(a.updatedDate),
                                      stringOrEmpty(b.updatedDate))
                 [] OTHER -> 0
    IN IF column \in KnownColumns /\ direction = "desc" THEN 0 - cmp ELSE cmp

\* rows.sort(...): a stable sort.
RECURSIVE insertRow(_, _, _, _)
insertRow(sorted, row, column, direction) ==
    IF sorted = <<>> THEN <<row>>
    ELSE IF compareRows(column, direction, row, sorted[Len(sorted)]) < 0
         THEN Append(insertRow(SubSeq(sorted, 1, Len(sorted) - 1), row, column, direction),
                     sorted[Len(sorted)])
         ELSE Append(sorted, row)

RECURSIVE sortRows(_, _, _)
sortRows(rows, column, direction) ==
    IF rows = <<>> THEN <<>>
    ELSE insertRow(sortRows(SubSeq(rows, 1, Len(rows) - 1), column, direction),
                   rows[Len(rows)], column, direction)

\* sortTable(column) on the table t
sortTable(t, column) ==
    IF ~t.exists \/ t.rows = <<>> THEN t
    ELSE LET direction == IF t.currentSortColumn = column
                          THEN (IF t.currentSortDirection = "asc" THEN "desc" ELSE "asc")
                          ELSE "asc"
         IN [t EXCEPT !.currentSortColumn = column,
                      !.currentSortDirection = direction,
                      !.rows = sortRows(t.rows, column, direction)]

InitSort ==
    /\ lsMode = "ok"
    /\ localStorage = EmptyStorage
    /\ memoryStore = EmptyStorage
    /\ lastOp = NoOp
    /\ dataTheme = "light" /\ darkClass = FALSE /\ dataMarket = "western"
    /\ gridControls = NoProps
    /\ chartSettings = CHART_DEFAULTS
    /\ view = "table" /\ reqs = <<>> /\ currentRequest = 0
    /\ shown = ServerRendered
    /\ loadingVisible = FALSE /\ interactive = TRUE /\ urlRange = ""
    /\ cards = NoCards /\ chart = NoChart /\ modal = NoModal
    /\ buttons = NoButtons /\ sparklines = NoSparklines /\ boot = NoBoot
    /\ \E exists \in BOOLEAN :
          table = [page |-> "table", exists |-> exists, rows |-> <<>>,
                   currentSortColumn |-> "null", currentSortDirection |-> "asc"]

SortFrame ==
    UNCHANGED <<lsMode, localStorage, memoryStore, domVars, viewVars, chart, modal,
                buttons, sparklines, boot>>

\* A click on a column header.
SortTable ==
    \E column \in KnownColumns \cup {"trend"} :
        /\ table' = sortTable(table, column)
        /\ Applied("sortTable", Str(column), Undefined)
        /\ SortFrame

\* BW.CompactTable.updateTableData puts the rows of a response in the body;
\* the sort state is left as it is.
SortUpdateTableData ==
    \E commodities \in TableLists :
        /\ table.exists
        /\ table' = [table EXCEPT !.rows = [i \in DOMAIN commodities |->
                                               tableRow(commodities[i])]]
        /\ Applied("CompactTable.updateTableData", Null, Undefined)
        /\ SortFrame

NextSort == SortTable \/ SortUpdateTableData

SpecSort == InitSort /\ [][NextSort]_vars

\* The value of a row in a column, as the row shows it.
shownValue(row, column) ==
    CASE column = "name" -> collationRank(row.commodityName.v)
      [] column = "price" -> row.priceRaw.v
      [] column = "change" -> row.chgInnerValue.v
      [] column = "pct" -> row.pctInnerValue.v
      [] column = "date" -> collationRank(row.updatedDate.v)

orderedBy(rows, column, direction) ==
    \A i, j \in DOMAIN rows :
        i < j => IF direction = "asc"
                 THEN shownValue(rows[i], column) <= shownValue(rows[j], column)
                 ELSE shownValue(rows[i], column) >= shownValue(rows[j], column)

sameRows(before, after) ==
    /\ Len(before) = Len(after)
    /\ {before[i] : i \in DOMAIN before} = {after[i] : i \in DOMAIN after}

\* C25: a call of sortTable for another column than the current one sorts
\* ascending, a further call for the same column flips the direction; after
\* a call with a known column the body holds the same rows, in the order of
\* that column and direction; without a table or without rows a call changes
\* neither the rows nor the sort state.
C25_SortTable ==
    [][lastOp'.op = "sortTable" =>
          LET column == lastOp'.arg.v
          IN IF ~table.exists \/ table.rows = <<>>
             THEN table' = table
             ELSE /\ table'.currentSortColumn = column
                  /\ table'.currentSortDirection =
                        IF table.currentSortColumn # column THEN "asc"
                        ELSE IF table.currentSortDirection = "asc" THEN "desc" ELSE "asc"
                  /\ sameRows(table.rows, table'.rows)
                  /\ column \in KnownColumns =>
                        orderedBy(table'.rows, column, table'.currentSortDirection)]_vars

(***************************************************************************)
(* SpecSparklines: the Chart.js sparklines of the compact table and        *)
(* BW.CompactTable.chartRegistry, under range changes, applySettings, the  *)
(* animation frames of initSparklines and theme refreshes.                 *)
(***************************************************************************)

MaxFetches == 3

\* The commodities of the page; every response lists them all.
SparkIds == {"gold", "wheat"}
SparkRanges == {"1W", "ALL"}

\* The commodities whose history in the response for a range has two points
\* or more: the one-week history of wheat, a monthly series, has fewer.
charted(range) == IF range = "1W" THEN {"gold"} ELSE SparkIds

\* destroyAllCharts: every registered chart is destroyed and its entry deleted.
CompactTable_destroyAllCharts(s) ==
    [s EXCEPT !.charts = [c \in DOMAIN s.charts |->
                             IF \E id \in SparkIds : s.chartRegistry[id] = c
                             THEN [s.charts[c] EXCEPT !.destroyed = TRUE]
                             ELSE s.charts[c]],
              !.chartRegistry = [id \in SparkIds |-> 0]]

\* updateTableData as far as the charts go: the registered charts are
\* destroyed, the body gets the rows of the response with new canvases, and
\* initSparklines schedules a frame for the response.
CompactTable_rebuild(s, range) ==
    LET d == CompactTable_destroyAllCharts(s)
    IN [d EXCEPT !.body = "rows", !.rowsRange = range, !.canvases = d.canvases + 1,
                 !.frames = Append(d.frames, range)]

\* The body of the forEach of initSparklines for one commodity of a response.
sparklineOf(s, id, range) ==
    IF s.body # "rows" \/ id \notin charted(range) THEN s
    ELSE LET old == s.chartRegistry[id]
             destroyed == IF old = 0 THEN s.charts
                          ELSE [s.charts EXCEPT ![old].destroyed = TRUE]
         IN [s EXCEPT !.charts = Append(destroyed,
                                        [canvasId |-> id, canvas |-> s.canvases,
                                         data |-> range, colors |-> s.theme,
                                         destroyed |-> FALSE]),
                      !.chartRegistry[id] = Len(s.charts) + 1]

\* The frame initSparklines scheduled for a response.
initSparklinesFrame(s, range) == sparklineOf(sparklineOf(s, "gold", range), "wheat", range)

\* refreshSparklines: the registered charts whose canvas is in the document
\* take the colours of the theme.
CompactTable_refreshSparklines(s) ==
    [s EXCEPT !.charts = [c \in DOMAIN s.charts |->
                             IF s.body = "rows" /\ \E id \in SparkIds : s.chartRegistry[id] = c
                             THEN [s.charts[c] EXCEPT !.colors = s.theme]
                             ELSE s.charts[c]]]

InitSparklines ==
    /\ lsMode = "ok"
    /\ localStorage = EmptyStorage
    /\ memoryStore = EmptyStorage
    /\ lastOp = NoOp
    /\ dataTheme = "light" /\ darkClass = FALSE /\ dataMarket = "western"
    /\ gridControls = NoProps
    /\ chartSettings = CHART_DEFAULTS
    /\ view = "table" /\ reqs = <<>> /\ currentRequest = 0
    /\ shown = ServerRendered
    /\ loadingVisible = FALSE /\ interactive = TRUE /\ urlRange = ""
    /\ cards = NoCards /\ chart = NoChart /\ modal = NoModal
    /\ buttons = NoButtons /\ table = NoTable /\ boot = NoBoot
    /\ \E range \in SparkRanges :
          sparklines = [page |-> "table",
                        url |-> range,             \* the range parameter of the URL
                        body |-> "rows",           \* rows, or the error row
                        rowsRange |-> range,       \* the range whose data the rows show
                        canvases |-> 1,            \* the generation of the canvases in the body
                        chartRegistry |-> [id \in SparkIds |-> 0],
                        charts |-> <<>>,           \* every Chart created so far
                        frames |-> <<range>>,      \* the frames initSparklines has scheduled
                        fetches |-> <<>>,          \* the fetches issued so far
                        current |-> 0,             \* currentRequest: index into fetches
                        theme |-> "light"]

SparkFrame ==
    UNCHANGED <<lsMode, localStorage, memoryStore, domVars, viewVars, chart, modal,
                buttons, table, boot>>

Fetch(kind, range) == [kind |-> kind, range |-> range, status |-> "pending"]

\* BW.CompactTable.setDataRange(range) up to the fetch: the URL is updated,
\* the earlier request is aborted and a new one is sent.
SparkSetDataRange ==
    \E range \in SparkRanges :
        /\ Len(sparklines.fetches) < MaxFetches
        /\ LET cur == sparklines.current
               aborted == IF cur # 0 /\ sparklines.fetches[cur].status = "pending"
                          THEN [sparklines.fetches EXCEPT ![cur].status = "aborting"]
                          ELSE sparklines.fetches
           IN sparklines' = [sparklines EXCEPT
                                !.url = range,
                                !.fetches = Append(aborted, Fetch("range", range)),
                                !.current = Len(aborted) + 1]
        /\ Applied("CompactTable.setDataRange", Str(range), Undefined)
        /\ SparkFrame

\* The response of a range request: updateTableData.
SparkRangeResponse ==
    \E f \in DOMAIN sparklines.fetches :
        /\ sparklines.fetches[f].kind = "range"
        /\ sparklines.fetches[f].status = "pending"
        /\ sparklines' = [CompactTable_rebuild(sparklines, sparklines.fetches[f].range)
                             EXCEPT !.fetches[f].status = "settled"]
        /\ Applied("CompactTable.updateTableData", Str(sparklines.fetches[f].range), Undefined)
        /\ SparkFrame

\* A range request is rejected, by the network or by its abort: the catch
\* handler puts the error row in the body.
SparkRangeFailure ==
    \E f \in DOMAIN sparklines.fetches :
        /\ sparklines.fetches[f].kind = "range"
        /\ sparklines.fetches[f].status \in {"pending", "aborting"}
        /\ sparklines' = [sparklines EXCEPT !.fetches[f].status = "settled",
                                            !.body = "error"]
        /\ Applied("CompactTable.setDataRange catch", Str(sparklines.fetches[f].range),
                   Undefined)
        /\ SparkFrame

\* BW.CompactTable.applySettings: a fetch for the range of the URL, without
\* an abort signal.
SparkApplySettings ==
    /\ Len(sparklines.fetches) < MaxFetches
    /\ sparklines' = [sparklines EXCEPT
                         !.fetches = Append(sparklines.fetches, Fetch("apply", sparklines.url))]
    /\ Applied("CompactTable.applySettings", Null, Undefined)
    /\ SparkFrame

\* The response of a fetch of applySettings: initSparklines schedules a frame.
SparkApplyResponse ==
    \E f \in DOMAIN sparklines.fetches :
        /\ sparklines.fetches[f].kind = "apply"
        /\ sparklines.fetches[f].status = "pending"
        /\ sparklines' = [sparklines EXCEPT
                             !.fetches[f].status = "settled",
                             !.frames = Append(sparklines.frames, sparklines.fetches[f].range)]
        /\ Applied("applySettings response", Str(sparklines.fetches[f].range), Undefined)
        /\ SparkFrame

\* A fetch of applySettings fails: the error is logged.
SparkApplyFailure ==
    \E f \in DOMAIN sparklines.fetches :
        /\ sparklines.fetches[f].kind = "apply"
        /\ sparklines.fetches[f].status = "pending"
        /\ sparklines' = [sparklines EXCEPT !.fetches[f].status = "settled"]
        /\ Applied("applySettings catch", Str(sparklines.fetches[f].range), Undefined)
        /\ SparkFrame

\* The oldest scheduled frame runs.
SparkAnimationFrame ==
    /\ sparklines.frames # <<>>
    /\ sparklines' = [initSparklinesFrame(sparklines, Head(sparklines.frames))
                         EXCEPT !.frames = Tail(sparklines.frames)]
    /\ Applied("initSparklines frame", Str(Head(sparklines.frames)), Undefined)
    /\ SparkFrame

\* The theme changes and BW.Sparkline.refresh runs.
SparkThemeRefresh ==
    \E theme \in {"light", "dark"} :
        /\ theme # sparklines.theme
        /\ sparklines' = CompactTable_refreshSparklines([sparklines EXCEPT !.theme = theme])
        /\ Applied("CompactTable.refreshSparklines", Str(theme), Undefined)
        /\ SparkFrame

NextSparklines ==
    \/ SparkSetDataRange \/ SparkRangeResponse \/ SparkRangeFailure
    \/ SparkApplySettings \/ SparkApplyResponse \/ SparkApplyFailure
    \/ SparkAnimationFrame \/ SparkThemeRefresh

SpecSparklines == InitSparklines /\ [][NextSparklines]_vars

\* The charts that are drawn in the table: registered, on a canvas of the body.
shownCharts ==
    {c \in DOMAIN sparklines.charts :
        /\ ~sparklines.charts[c].destroyed
        /\ sparklines.body = "rows"
        /\ sparklines.charts[c].canvas = sparklines.canvases}

\* C26: the sparklines in the table are drawn from the data of the range
\* whose rows the table shows.
C26_SparklinesMatchRows ==
    \A c \in shownCharts : sparklines.charts[c].data = sparklines.rowsRange

liveCharts == {c \in DOMAIN sparklines.charts : ~sparklines.charts[c].destroyed}
registered == {sparklines.chartRegistry[id] : id \in SparkIds} \ {0}

\* The registry holds exactly the live charts, each under its canvas id.
registryIsLive ==
    /\ registered = liveCharts
    /\ \A id \in SparkIds :
          sparklines.chartRegistry[id] # 0 =>
              sparklines.charts[sparklines.chartRegistry[id]].canvasId = id
    /\ \A c, d \in liveCharts :
          sparklines.charts[c].canvasId = sparklines.charts[d].canvasId => c = d

\* Every registered chart is on a canvas that is in the table.
registeredInTable ==
    \A c \in registered :
        sparklines.body = "rows" /\ sparklines.charts[c].canvas = sparklines.canvases

\* C29: chartRegistry holds exactly the live charts: every chart created and
\* not destroyed is registered under its canvas id, no canvas id has two live
\* charts, every registered chart belongs to a canvas that is in the table,
\* and destroyAllCharts (in updateTableData) leaves the registry empty and
\* every chart that was registered destroyed.
C29_RegistryHoldsLiveCharts ==
    /\ [](registryIsLive /\ registeredInTable)
    /\ [][lastOp'.op = "CompactTable.updateTableData" =>
             /\ \A id \in SparkIds : sparklines'.chartRegistry[id] = 0
             /\ \A c \in registered : sparklines'.charts[c].destroyed]_vars

\* ---------------------------------------------------------------------------
\* The loading state of a list view while its latest fetch is pending
\* ---------------------------------------------------------------------------

\* The fetch issued last has not settled.
latestPending == Len(reqs) > 0 /\ reqs[LastRequest].status = "pending"

\* C27 (as claimed): from a setDataRange call until the fetch issued last has
\* settled, the loading indicator is visible and the container is dimmed and
\* not interactive, whatever happens to the earlier fetches in between.
C27_LoadingWhileLatestPending ==
    latestPending => loadingVisible /\ ~interactive

\* ---------------------------------------------------------------------------
\* The view once every fetch has settled
\* ---------------------------------------------------------------------------

Settled == {"done", "failed", "aborted"}

allSettled ==
    /\ Len(reqs) > 0
    /\ \A i \in 1..Len(reqs) : reqs[i].status \in Settled

\* The dataRange the view's getSettings returns, which is what the view reads
\* the saved range from.
persistedDataRange ==
    IF view = "grid" THEN Get(GridView_getSettings(Store), "dataRange")
    ELSE LET got == CompactTable_getSettings(Store)
         IN IF got.threw THEN Undefined ELSE Get(got.ret, "dataRange")

\* C28 (as claimed): once every range-change fetch of the view has settled, the
\* loading indicator is hidden, the container is interactive, the view shows
\* what the response for the range requested last held or the error state of
\* that range, and the persisted dataRange and the range parameter of the URL
\* both equal that range.
C28_SettledView ==
    /\ allSettled
       => /\ ~loadingVisible
          /\ interactive
          /\ urlRange = reqs[LastRequest].range
          /\ persistedDataRange = Str(reqs[LastRequest].range)
          /\ reqs[LastRequest].status = "done" => shown.kind \in {"rows", "empty", "error"}
          /\ reqs[LastRequest].status = "failed" => shown = errorState(reqs[LastRequest].range)
          /\ shown.kind = "error" => shown.range = reqs[LastRequest].range

\* ---------------------------------------------------------------------------
\* The results of filterDataByRange for one series, range by range
\* ---------------------------------------------------------------------------

\* The ranges from the shortest to the longest.
RangeOrder == <<"1W", "1M", "3M", "6M", "1Y", "ALL">>

\* a is the end of b
isSuffix(a, b) ==
    /\ Len(a) <= Len(b)
    /\ a = SubSeq(b, Len(b) - Len(a) + 1, Len(b))

\* What filterDataByRange returns for the series it was last given, had it
\* been called with `range`.
resultFor(range) == filterDataByRange(lastOp.arg.data, range, chart.shift).items

\* C30: for a date-ascending series S the result for each range is the end of
\* the result for the next longer range, from '1W' up to 'ALL', whose result
\* is S; so every result is an end of S. It holds too when the latest
\* observation is on the last days of a month or on 29 February.
C30_ResultsNested ==
    (lastOp.op = "filterDataByRange" /\ lastOp.arg.data # Null) =>
        /\ lastOp.ret.items = resultFor(lastOp.arg.range)
        /\ resultFor("ALL") = lastOp.arg.data.items
        /\ \A k \in 1..(Len(RangeOrder) - 1) :
              isSuffix(resultFor(RangeOrder[k]), resultFor(RangeOrder[k + 1]))
        /\ isSuffix(lastOp.ret.items, lastOp.arg.data.items)

\* C30's case: the latest observation is 31 March or 29 February, where the
\* month of the cutoff overflows, and the ranges cut the series at different
\* places.
C30_Witness ==
    /\ lastOp.op = "filterDataByRange"
    /\ lastOp.arg.data # Null
    /\ lastOp.arg.range = "1M"
    /\ lastOp.arg.data.items # <<>>
    /\ lastOp.arg.data.items[Len(lastOp.arg.data.items)].date
          \in {<<2024, 3, 31>>, <<2024, 2, 29>>}
    /\ Len(resultFor("1W")) < Len(resultFor("1M"))
    /\ Len(resultFor("1Y")) < Len(resultFor("ALL"))

============================================================================
